---- MODULE Spec2Model ----
(***************************************************************************)
(* A model of the tree-walking evaluator of the chemistry language:        *)
(* the parent-linked environments (ch_env.py), the interpreter's current   *)
(* environment pointer and its evaluate handlers (ch_interpreter.py), the  *)
(* callable objects (objs/ch_work.py) and the part of the value model the  *)
(* control flow depends on (objs/ch_quantity.py, objs/ch_number.py).       *)
(*                                                                         *)
(* The interpreter is recursive in the source.  Here it is a machine with  *)
(* an explicit control (ctrl), a stack of the host frames that are waiting *)
(* for a sub-evaluation (kont), the heap of Env objects (heap), the heap   *)
(* of CHWork objects (works), the interpreter's env pointer (env) and the  *)
(* values handed to the native `print` (out).  The error handler's flag    *)
(* (had_error) and the driver that evaluates one source after another      *)
(* (ch_eval.py: phase, pending, results) complete the state.  The         *)
(* arithmetic of the value classes is exercised directly, on operands      *)
(* drawn from bounded sets (calc).  The scanner and the parser that turn   *)
(* a source text into the tree (ch_scanner.py, ch_parser.py, driven by     *)
(* CH.eval of main.py) run on texts drawn from bounded sets (front).       *)
(***************************************************************************)
EXTENDS Integers, Sequences, FiniteSets

VARIABLES prog, ctrl, kont, heap, works, env, out, steps,
          had_error, phase, pending, results, calc, front

vars == <<prog, ctrl, kont, heap, works, env, out, steps,
          had_error, phase, pending, results, calc, front>>

\* The state of the driver (ch_eval.evaluate): its position in the current
\* call, the sources still to be evaluated and the results of the calls made;
\* and the state of the scanner and the parser, which the evaluation of a
\* tree leaves alone.
driver == <<phase, pending, results, front>>

\* calc holds the operands and the results of operations applied directly to
\* the value classes (SignificantDigits, CHQuantity); the interpreter and the
\* driver leave it alone.
NoCalc == [operands |-> <<>>, trail |-> <<>>]

\* front holds the Scanner and the Parser objects of one run of the front end;
\* no front end runs in the specifications of the interpreter and the values.
NoFront == [at |-> "none"]

(***************************************************************************)
(* Bounds of the model.                                                    *)
(***************************************************************************)
MaxN == 5
MaxCalls == 3
MaxMakeups == 2
MaxDepth == 2
MaxSteps == 400
MaxInputs == 2

(***************************************************************************)
(* Values.                                                                 *)
(***************************************************************************)
NoneV == [t |-> "None"]
BoolV(b) == [t |-> "bool", b |-> b]
WorkV(id) == [t |-> "CHWork", id |-> id]
NativeV(name, arity) == [t |-> "NativeWork", name |-> name, arity |-> arity]
ListV(items) == [t |-> "list", items |-> items]

(***************************************************************************)
(* SignificantDigits restricted to integer values: the Decimal value and   *)
(* the sig_fig count.                                                      *)
(***************************************************************************)
RECURSIVE NumDigits(_)
NumDigits(n) == IF n < 10 THEN 1 ELSE 1 + NumDigits(n \div 10)

RECURSIVE StripZeros(_)
StripZeros(n) == IF n # 0 /\ n % 10 = 0 THEN StripZeros(n \div 10) ELSE n

Abs(v) == IF v < 0 THEN -v ELSE v

\* len(str(v).rstrip("0")) for an integer v: the sign is counted, "0" strips to "".
_parse_significant_digits(v) ==
    IF v = 0 THEN 0
    ELSE NumDigits(StripZeros(Abs(v))) + (IF v < 0 THEN 1 ELSE 0)

\* _parse_significant_digits(str(x)) for a SignificantDigits x: "NA" has two
\* characters; "{value:.{sig_fig}g}" is the plain integer when it has no more
\* than sig_fig digits and else a mantissa of sig_fig digits with an exponent.
SigFigOfStr(value, sig_fig) ==
    IF sig_fig = 0 THEN 2
    ELSE IF NumDigits(Abs(value)) <= sig_fig THEN _parse_significant_digits(value)
    ELSE sig_fig + (IF value < 0 THEN 1 ELSE 0)

\* SignificantDigits(x) of a SignificantDigits x (sig_fig = -1: parsed from str(x)).
SignificantDigits(m) ==
    [value |-> m.value, sig_fig |-> SigFigOfStr(m.value, m.sig_fig)]

\* SignificantDigits(Decimal(v)): the magnitude of a number literal.
SignificantDigitsOfDecimal(v) ==
    [value |-> v, sig_fig |-> _parse_significant_digits(v)]

\* CHQuantity(formula, magnitude, unit) with a dimensionless unit and no formula;
\* the constructor wraps the magnitude in CHNumber once more.
CHQuantity(m) ==
    LET w == SignificantDigits(m)
    IN  [t |-> "CHQuantity", value |-> w.value, sig_fig |-> w.sig_fig]

\* The literal the parser builds for a NUM token: CHQuantity(formula, Decimal, unit).
NumLiteral(v) ==
    LET m == SignificantDigitsOfDecimal(v)
    IN  [t |-> "CHQuantity", value |-> m.value, sig_fig |-> m.sig_fig]

Magnitude(q) == [value |-> q.value, sig_fig |-> q.sig_fig]

\* SignificantDigits.__add__ / __sub__ on integers: zero decimal places, the
\* sig-fig count parsed from the result formatted with precision 0.
SD_add(a, b) == SignificantDigitsOfDecimal(a.value + b.value)
SD_sub(a, b) == SignificantDigitsOfDecimal(a.value - b.value)
\* SignificantDigits.__eq__: equal values and equal sig-fig counts.
SD_eq(a, b) == a.value = b.value /\ a.sig_fig = b.sig_fig

\* CHQuantity.__add__ / __sub__: CHQuantity(formula, CHNumber(result.magnitude), ...)
CHQuantity_add(a, b) == CHQuantity(SignificantDigits(SD_add(Magnitude(a), Magnitude(b))))
CHQuantity_sub(a, b) == CHQuantity(SignificantDigits(SD_sub(Magnitude(a), Magnitude(b))))

(***************************************************************************)
(* Truthiness of a value as the host decides it (bool(x)).                 *)
(* CHQuantity.__bool__ returns bool(self.magnitude), and SignificantDigits *)
(* defines neither __bool__ nor __len__: every instance is truthy.         *)
(***************************************************************************)
SignificantDigits_bool(m) == TRUE

CHQuantity_bool(q) == SignificantDigits_bool(Magnitude(q))

Truthy(v) ==
    CASE v.t = "None" -> FALSE
      [] v.t = "bool" -> v.b
      [] v.t = "CHQuantity" -> CHQuantity_bool(v)
      [] v.t = "list" -> v.items # <<>>
      [] v.t = "CHWork" -> TRUE
      [] v.t = "NativeWork" -> TRUE

(***************************************************************************)
(* Env: the heap of Env objects; a pointer is an index, 0 is None.         *)
(***************************************************************************)
EmptyVars == [n \in {} |-> NoneV]

Env(parent, vs) == [parent |-> parent, vars |-> vs]

Bind(vs, name, value) ==
    [n \in (DOMAIN vs) \cup {name} |-> IF n = name THEN value ELSE vs[n]]

\* Env.lookup: the first binding of name on the parent chain; the walk past
\* the root raises "Variable not found" (reported through handler.error).
RECURSIVE lookup(_, _, _)
lookup(h, p, name) ==
    IF p = 0 THEN [found |-> FALSE, val |-> NoneV]
    ELSE IF name \in DOMAIN h[p].vars THEN [found |-> TRUE, val |-> h[p].vars[name]]
    ELSE lookup(h, h[p].parent, name)

\* The walk of Env.assign: the first scope on the chain from `parent` that
\* binds name, with the scope visited just before it (0 when none).
RECURSIVE FindBinding(_, _, _, _)
FindBinding(h, child, parent, name) ==
    IF parent = 0 THEN [child |-> child, parent |-> 0]
    ELSE IF name \in DOMAIN h[parent].vars THEN [child |-> child, parent |-> parent]
    ELSE FindBinding(h, parent, h[parent].parent, name)

\* Env.assign without the rethreading of the child's parent reference: a
\* binding found in an ancestor is copied, but no scope is made to refer to
\* the copy.
assign_no_rethread(h, self, name, value) ==
    LET at == FindBinding(h, 0, self, name)
        new == Len(h) + 1
    IN  IF at.parent # 0
        THEN LET copy == Env(h[at.parent].parent, Bind(h[at.parent].vars, name, value))
             IN  IF at.child = 0
                 THEN [heap |-> Append(h, copy), env |-> new]
                 ELSE [heap |-> Append(h, copy), env |-> self]
        ELSE [heap |-> Append(h, Env(h[self].parent, Bind(h[self].vars, name, value))),
              env |-> new]

\* Env.assign(self, name, value): the heap after the call and the Env returned.
assign(h, self, name, value) ==
    LET at == FindBinding(h, 0, self, name)
        new == Len(h) + 1
    IN  IF at.parent # 0
        THEN LET copy == Env(h[at.parent].parent, Bind(h[at.parent].vars, name, value))
             IN  IF at.child = 0
                 THEN [heap |-> Append(h, copy), env |-> new]
                 ELSE [heap |-> [Append(h, copy) EXCEPT ![at.child].parent = new],
                       env |-> self]
        ELSE [heap |-> Append(h, Env(h[self].parent, Bind(h[self].vars, name, value))),
              env |-> new]

(***************************************************************************)
(* AST nodes (ch_ast.py), as the parser builds them.                       *)
(***************************************************************************)
NoneNode == [k |-> "None"]
Literal(value) == [k |-> "Literal", value |-> value]
Variable(name) == [k |-> "Variable", name |-> name]
Assign(name, val) == [k |-> "Assign", name |-> name, val |-> val]
Binary(left, op, right) == [k |-> "Binary", left |-> left, op |-> op, right |-> right]
Unary(op, right) == [k |-> "Unary", op |-> op, right |-> right]
Call(callee, args) == [k |-> "Call", callee |-> callee, args |-> args]
Interval(start, end) == [k |-> "Interval", start |-> start, end |-> end]
Block(body) == [k |-> "Block", body |-> body]
Exam(cond, pass_stmt, fail_stmt) ==
    [k |-> "Exam", cond |-> cond, pass_stmt |-> pass_stmt, fail_stmt |-> fail_stmt]
During(cond, body) == [k |-> "During", cond |-> cond, body |-> body]
Redo(identifier, interval, body) ==
    [k |-> "Redo", identifier |-> identifier, interval |-> interval, body |-> body]
Work(identifier, params, body) ==
    [k |-> "Work", identifier |-> identifier, params |-> params, body |-> body]
Submit(expr) == [k |-> "Submit", expr |-> expr]
ExprStmt(expr) == [k |-> "ExprStmt", expr |-> expr]

\* Parser.assign: `x op= y` is desugared into `x = x op y`.
CompoundAssign(name, op, rvalue) == Assign(name, Binary(Variable(name), op, rvalue))

\* Parser.exam: `exam c1 b1 (makeup ci bi)* (fail bf)?` becomes a right-nested
\* chain of Exam nodes; the fail body is the branch of a Literal(True) condition.
\* makeups is the sequence of <<cond, body>> pairs in source order.
RECURSIVE ExamFold(_, _, _)
ExamFold(makeups, i, result) ==
    IF i = 0 THEN result
    ELSE ExamFold(makeups, i - 1, Exam(makeups[i][1], makeups[i][2], result))

ParseExam(branches, hasFail, failBody) ==
    LET makeups == IF hasFail THEN Append(branches, <<Literal(BoolV(TRUE)), failBody>>)
                   ELSE branches
    IN  ExamFold(makeups, Len(makeups), NoneNode)

(***************************************************************************)
(* Source programs, as parsed.  Num, PrintStmt and the statement helpers are   *)
(* abbreviations for the nodes the parser emits.                           *)
(***************************************************************************)
Num(v) == Literal(NumLiteral(v))
Pass == Literal(BoolV(TRUE))
Fail == Literal(BoolV(FALSE))
Na == Literal(NoneV)
PrintStmt(e) == ExprStmt(Call(Variable("print"), <<e>>))

\* tests/work_test.py test_closure, with `calls` invocations of the returned work:
\*   work counter()
\*       i = 0
\*       work impl()
\*           print(i)
\*           i += 1
\*       submit impl
\*   i = counter()
\*   i()   (calls times)
ClosureProgram(calls) ==
    Block(<<Work("counter", <<>>, Block(<<
                ExprStmt(Assign("i", Num(0))),
                Work("impl", <<>>, Block(<<
                    PrintStmt(Variable("i")),
                    ExprStmt(CompoundAssign("i", "ADD", Num(1)))>>)),
                Submit(Variable("impl"))>>)),
            ExprStmt(Assign("i", Call(Variable("counter"), <<>>)))>>
          \o [j \in 1..calls |-> ExprStmt(Call(Variable("i"), <<>>))])

\* An assignment to the global x inside a nested scope, then print(x) outside:
\*   x = 1
\*   exam pass / during x == 1 / work f() ... f()
\*       x = 2
\*   print(x)
ScopeProgram(kind) ==
    LET set == Block(<<ExprStmt(Assign("x", Num(2)))>>)
        nested ==
            CASE kind = "exam" -> <<Exam(Pass, set, NoneNode)>>
              [] kind = "during" ->
                   <<During(Binary(Variable("x"), "EQEQ", Num(1)), set)>>
              [] kind = "work" ->
                   <<Work("f", <<>>, set), ExprStmt(Call(Variable("f"), <<>>))>>
    IN  Block(<<ExprStmt(Assign("x", Num(1)))>> \o nested \o <<PrintStmt(Variable("x"))>>)

\* A work that reads x, an assignment to x after its declaration, then a call:
\*   global:     x = 1; work f() print(x); x = 2; f()
\*   declaring:  work mk() { x = 1; work f() print(x); x = 2; submit f }; g = mk(); g()
\*   other:      x = 1; work f() print(x); work g() x = 2; g(); f()
UpdateProgram(kind) ==
    LET f == Work("f", <<>>, Block(<<PrintStmt(Variable("x"))>>))
        x1 == ExprStmt(Assign("x", Num(1)))
        x2 == ExprStmt(Assign("x", Num(2)))
        callf == ExprStmt(Call(Variable("f"), <<>>))
    IN  CASE kind = "global" -> Block(<<x1, f, x2, callf>>)
          [] kind = "declaring" ->
               Block(<<Work("mk", <<>>, Block(<<x1, f, x2, Submit(Variable("f"))>>)),
                       ExprStmt(Assign("g", Call(Variable("mk"), <<>>))),
                       ExprStmt(Call(Variable("g"), <<>>))>>)
          [] kind = "other" ->
               Block(<<x1, f, Work("g", <<>>, Block(<<x2>>)),
                       ExprStmt(Call(Variable("g"), <<>>)), callf>>)

\* A submit under a nest of exam, during and redo blocks (shape, outermost
\* first), each followed by a statement that must not run, in a work that also
\* calls itself.  The redo iterates over the one-element list that the work
\* `one` returns (the values of its during loop):
\*   work one()
\*       j = 1
\*       during j >= 1
\*           j -= 1
\*   work f(n)
\*       exam n == 0
\*           r = f(1)
\*           print(r)
\*           submit 10
\*       <shape>: exam pass / during pass / redo k of one()
\*                    ... submit n
\*                    print(99)
\*       print(98)
\*   print(f(0))
\*   print(7)
RECURSIVE Nest(_, _)
Nest(shape, inner) ==
    IF shape = <<>> THEN inner
    ELSE LET body == Block(<<Nest(Tail(shape), inner), PrintStmt(Num(99))>>)
         IN  CASE Head(shape) = "exam" -> Exam(Pass, body, NoneNode)
               [] Head(shape) = "during" -> During(Pass, body)
               [] Head(shape) = "redo" -> Redo("k", Call(Variable("one"), <<>>), body)

SubmitProgram(shape) ==
    Block(<<Work("one", <<>>, Block(<<
                ExprStmt(Assign("j", Num(1))),
                During(Binary(Variable("j"), "GE", Num(1)),
                       Block(<<ExprStmt(CompoundAssign("j", "SUB", Num(1)))>>))>>)),
            Work("f", <<"n">>, Block(<<
                Exam(Binary(Variable("n"), "EQEQ", Num(0)),
                     Block(<<ExprStmt(Assign("r", Call(Variable("f"), <<Num(1)>>))),
                             PrintStmt(Variable("r")),
                             Submit(Num(10))>>),
                     NoneNode),
                Nest(shape, Submit(Variable("n"))),
                PrintStmt(Num(98))>>)),
            PrintStmt(Call(Variable("f"), <<Num(0)>>)),
            PrintStmt(Num(7))>>)

\* tests/recurse_test.py test_recursive_sum, for an argument n:
\*   work sum(n)
\*       exam n == 0
\*           submit 0
\*       fail
\*           submit sum(n-1) + n
\*   print(sum(n))
SumProgram(n) ==
    Block(<<Work("sum", <<"n">>, Block(<<
                ParseExam(<< <<Binary(Variable("n"), "EQEQ", Num(0)),
                               Block(<<Submit(Num(0))>>)>> >>,
                          TRUE,
                          Block(<<Submit(Binary(
                              Call(Variable("sum"), <<Binary(Variable("n"), "SUB", Num(1))>>),
                              "ADD", Variable("n")))>>))>>)),
            PrintStmt(Call(Variable("sum"), <<Num(n)>>))>>)

\* An exam chain whose conditions are calls that leave a mark, in a work whose
\* value is the value of the chain (conds[i] is what condition i submits):
\*   work c1()            (one per condition)
\*       print(11)
\*       submit pass|fail
\*   work t()
\*       exam c1()
\*           print(1)
\*           1
\*       makeup c2()
\*           print(2)
\*           2
\*       fail
\*           print(0)
\*           0
\*   t()
CondNames == <<"c1", "c2", "c3", "c4", "c5">>

ExamProgram(conds, hasFail) ==
    LET cond(i) == Work(CondNames[i], <<>>, Block(<<
                       PrintStmt(Num(10 + i)),
                       Submit(Literal(BoolV(conds[i])))>>))
        body(i) == Block(<<PrintStmt(Num(i)), ExprStmt(Num(i))>>)
        branch(i) == <<Call(Variable(CondNames[i]), <<>>), body(i)>>
    IN  Block([i \in 1..Len(conds) |-> cond(i)]
              \o <<Work("t", <<>>, Block(<<
                       ParseExam([i \in 1..Len(conds) |-> branch(i)], hasFail, body(0))>>)),
                   ExprStmt(Call(Variable("t"), <<>>))>>)

\* tests/loop_test.py test_during, for a counter that starts at n:
\*   i = n
\*   during i >= 0
\*       print(i)
\*       i -= 1
DuringProgram(n) ==
    Block(<<ExprStmt(Assign("i", Num(n))),
            During(Binary(Variable("i"), "GE", Num(0)),
                   Block(<<PrintStmt(Variable("i")),
                           ExprStmt(CompoundAssign("i", "SUB", Num(1)))>>))>>)

\* tests/loop_test.py test_redo, with one loop over a ... b:
\*   redo i of a...b
\*       print(i)
RedoProgram(a, b) ==
    Block(<<Redo("i", Interval(Num(a), Num(b)), Block(<<PrintStmt(Variable("i"))>>))>>)

\* A redo over the list a work returns (the values of a during loop):
\*   work f()
\*       i = n
\*       during i >= 1
\*           i -= 1
\*   redo x of f()
\*       print(x)
RedoListProgram(n) ==
    Block(<<Work("f", <<>>, Block(<<
                ExprStmt(Assign("i", Num(n))),
                During(Binary(Variable("i"), "GE", Num(1)),
                       Block(<<ExprStmt(CompoundAssign("i", "SUB", Num(1)))>>))>>)),
            Redo("x", Call(Variable("f"), <<>>), Block(<<PrintStmt(Variable("x"))>>))>>)

\* A value v used as a condition or under `!`:
\*   exam:    exam v { print(1) } fail { print(0) }
\*   exam_nofail:  work t() { exam v { 1 } }   print(t())
\*   during:  work t() { during v { submit 1 }  submit 0 }   print(t())
\*   not:     print(!v)
TruthyProgram(use, v) ==
    CASE use = "exam" ->
           Block(<<ParseExam(<< <<Literal(v), Block(<<PrintStmt(Num(1))>>)>> >>,
                             TRUE, Block(<<PrintStmt(Num(0))>>))>>)
      [] use = "exam_nofail" ->
           Block(<<Work("t", <<>>, Block(<<
                       ParseExam(<< <<Literal(v), Block(<<ExprStmt(Num(1))>>)>> >>,
                                 FALSE, NoneNode)>>)),
                   PrintStmt(Call(Variable("t"), <<>>))>>)
      [] use = "during" ->
           Block(<<Work("t", <<>>, Block(<<
                       During(Literal(v), Block(<<Submit(Num(1))>>)),
                       Submit(Num(0))>>)),
                   PrintStmt(Call(Variable("t"), <<>>))>>)
      [] use = "not" ->
           Block(<<PrintStmt(Unary("NOT", Literal(v)))>>)

\* `a() op b()` for op in && and ||, with operands that leave a mark:
\*   work a()
\*       print(1)
\*       submit <a>
\*   work b()
\*       print(2)
\*       submit <b>
\*   print(a() op b())
LogicProgram(op, a, b) ==
    Block(<<Work("a", <<>>, Block(<<PrintStmt(Num(1)), Submit(Literal(a))>>)),
            Work("b", <<>>, Block(<<PrintStmt(Num(2)), Submit(Literal(b))>>)),
            PrintStmt(Binary(Call(Variable("a"), <<>>), op, Call(Variable("b"), <<>>)))>>)

\* A call that must fail before its arguments are evaluated; m() and the body
\* of f leave marks:
\*   work m() { print(1); submit 1 }     work f(n) { print(5); submit n }
\*   many:         f(m(), m())
\*   few:          f()
\*   native:       print(m(), m())
\*   noncallable:  x = 1; x(m())
CallErrorProgram(kind) ==
    LET m == Work("m", <<>>, Block(<<PrintStmt(Num(1)), Submit(Num(1))>>))
        f == Work("f", <<"n">>, Block(<<PrintStmt(Num(5)), Submit(Variable("n"))>>))
        callm == Call(Variable("m"), <<>>)
        call == CASE kind = "many" -> Call(Variable("f"), <<callm, callm>>)
                  [] kind = "few" -> Call(Variable("f"), <<>>)
                  [] kind = "native" -> Call(Variable("print"), <<callm, callm>>)
                  [] kind = "noncallable" -> Call(Variable("x"), <<callm>>)
    IN  Block(<<m, f, ExprStmt(Assign("x", Num(1))), ExprStmt(call), PrintStmt(Num(7))>>)

\* A submit that no call encloses, followed by a statement:
\*   bare:    submit 1
\*   exam:    exam pass { submit 1 }
\*   during:  during pass { submit 1 }
\*   print(7)
TopLevelSubmitProgram(kind) ==
    LET sub == Submit(Num(1))
        stmt == CASE kind = "bare" -> sub
                  [] kind = "exam" -> Exam(Pass, Block(<<sub>>), NoneNode)
                  [] kind = "during" -> During(Pass, Block(<<sub>>))
    IN  Block(<<stmt, PrintStmt(Num(7))>>)

\* A name bound in the declaring scope only after the work that reads it:
\*   variable:  work f() { print(y) }   y = 3          f()   print(7)
\*   work:      work f() { g() }        work g() { print(3) }   f()   print(7)
\*   nested:    exam pass { work f() { print(y) }   y = 3   f() }   print(7)
\*   before:    y = 3   work f() { print(y) }   f()   print(7)
LateBindingProgram(kind) ==
    LET y == ExprStmt(Assign("y", Num(3)))
        f == Work("f", <<>>, Block(<<PrintStmt(Variable("y"))>>))
        callf == ExprStmt(Call(Variable("f"), <<>>))
        body == CASE kind = "variable" -> <<f, y, callf>>
                  [] kind = "work" ->
                       <<Work("f", <<>>, Block(<<ExprStmt(Call(Variable("g"), <<>>))>>)),
                         Work("g", <<>>, Block(<<PrintStmt(Num(3))>>)), callf>>
                  [] kind = "nested" -> <<Exam(Pass, Block(<<f, y, callf>>), NoneNode)>>
                  [] kind = "before" -> <<y, f, callf>>
    IN  Block(Append(body, PrintStmt(Num(7))))

\* A lookup of an unbound name inside a scope the interpreter opened:
\*   work:    work f() { nope }   f()
\*   exam:    exam pass { nope }
\*   during:  during pass { nope }
\*   redo:    work l() { i = 1  during i >= 1 { i -= 1 } }   redo x of l() { nope }
ScopeErrorProgram(kind) ==
    LET bad == Block(<<ExprStmt(Variable("nope"))>>)
    IN  CASE kind = "work" ->
               Block(<<Work("f", <<>>, bad), ExprStmt(Call(Variable("f"), <<>>))>>)
          [] kind = "exam" -> Block(<<Exam(Pass, bad, NoneNode)>>)
          [] kind = "during" -> Block(<<During(Pass, bad)>>)
          [] kind = "redo" ->
               Block(<<Work("l", <<>>, Block(<<
                           ExprStmt(Assign("i", Num(1))),
                           During(Binary(Variable("i"), "GE", Num(1)),
                                  Block(<<ExprStmt(CompoundAssign("i", "SUB", Num(1)))>>))>>)),
                       Redo("x", Call(Variable("l"), <<>>), bad)>>)

\* The values the truthiness and logic programs range over.
SampleValues == {NoneV, BoolV(TRUE), BoolV(FALSE), NumLiteral(0), NumLiteral(1), NumLiteral(2)}

RECURSIVE SeqsUpTo(_, _)
SeqsUpTo(S, n) ==
    IF n = 0 THEN {<<>>}
    ELSE LET shorter == SeqsUpTo(S, n - 1)
         IN  shorter \cup {Append(q, x) : q \in shorter, x \in S}

Programs ==
         {[name |-> "closure", calls |-> c] : c \in 1..MaxCalls}
    \cup {[name |-> "scope", kind |-> k] : k \in {"exam", "during", "work"}}
    \cup {[name |-> "update", kind |-> k] : k \in {"global", "declaring", "other"}}
    \cup {[name |-> "submit", shape |-> s] : s \in SeqsUpTo({"exam", "during", "redo"}, MaxDepth)}
    \cup {[name |-> "sum", n |-> n] : n \in 0..MaxN}
    \cup {[name |-> "exam", conds |-> c, hasFail |-> f] :
              c \in SeqsUpTo(BOOLEAN, MaxMakeups + 1) \ {<<>>}, f \in BOOLEAN}
    \cup {[name |-> "during", n |-> n] : n \in 0..MaxN}
    \cup {[name |-> "redo", a |-> a, b |-> b] : a \in 0..1, b \in 1..2}
    \cup {[name |-> "redo_list", n |-> n] : n \in 0..MaxN}
    \cup {[name |-> "truthy", use |-> u, v |-> v] :
              u \in {"exam", "exam_nofail", "during", "not"}, v \in SampleValues}
    \cup {[name |-> "logic", op |-> o, a |-> a, b |-> b] :
              o \in {"AND", "OR"}, a \in SampleValues, b \in SampleValues}
    \cup {[name |-> "call_error", kind |-> k] :
              k \in {"many", "few", "native", "noncallable"}}
    \cup {[name |-> "toplevel_submit", kind |-> k] : k \in {"bare", "exam", "during"}}
    \cup {[name |-> "late", kind |-> k] : k \in {"variable", "work", "nested", "before"}}
    \cup {[name |-> "scope_error", kind |-> k] : k \in {"work", "exam", "during", "redo"}}

AST(p) ==
    CASE p.name = "closure" -> ClosureProgram(p.calls)
      [] p.name = "scope" -> ScopeProgram(p.kind)
      [] p.name = "update" -> UpdateProgram(p.kind)
      [] p.name = "submit" -> SubmitProgram(p.shape)
      [] p.name = "sum" -> SumProgram(p.n)
      [] p.name = "exam" -> ExamProgram(p.conds, p.hasFail)
      [] p.name = "during" -> DuringProgram(p.n)
      [] p.name = "redo" -> RedoProgram(p.a, p.b)
      [] p.name = "redo_list" -> RedoListProgram(p.n)
      [] p.name = "truthy" -> TruthyProgram(p.use, p.v)
      [] p.name = "logic" -> LogicProgram(p.op, p.a, p.b)
      [] p.name = "call_error" -> CallErrorProgram(p.kind)
      [] p.name = "toplevel_submit" -> TopLevelSubmitProgram(p.kind)
      [] p.name = "late" -> LateBindingProgram(p.kind)
      [] p.name = "scope_error" -> ScopeErrorProgram(p.kind)

(***************************************************************************)
(* The machine.                                                            *)
(***************************************************************************)
Eval(node) == [m |-> "eval", node |-> node]
Ret(val) == [m |-> "ret", val |-> val]
Raise(exc, val) == [m |-> "raise", exc |-> exc, val |-> val]

Top == kont[Len(kont)]
Pop == SubSeq(kont, 1, Len(kont) - 1)
Push(frame) == Append(kont, frame)
Replace(frame) == Append(Pop, frame)

Tick == steps' = steps + 1
Evaluating(kind) == steps < MaxSteps /\ ctrl.m = "eval" /\ ctrl.node.k = kind
Returning(frame) == steps < MaxSteps /\ ctrl.m = "ret" /\ kont # <<>> /\ Top.f = frame

\* Interpreter.init_global_env: the natives and the flag; the attribute name
\* and the math wrappers are bindings no program of the model reads.
init_global_env ==
    Env(0, [n \in {"print", "input", "show_balanced_equation"} |->
              CASE n = "print" -> NativeV("print", 1)
                [] n = "input" -> NativeV("input", 1)
                [] n = "show_balanced_equation" -> BoolV(FALSE)])

\* Interpreter.__init__, then interpreter.evaluate(ast) of one parsed program.
Init ==
    /\ prog \in Programs
    /\ ctrl = Eval(AST(prog))
    /\ kont = <<>>
    /\ heap = <<init_global_env>>
    /\ works = <<>>
    /\ env = 1
    /\ out = <<>>
    /\ steps = 0
    /\ had_error = FALSE
    /\ phase = "evaluate"
    /\ pending = <<>>
    /\ results = <<>>
    /\ calc = NoCalc
    /\ front = NoFront

\* Interpreter.scope(), entered with no argument: the Env(self.env) it installs.
\* The heap and env after the entry; the caller keeps prev in its frame.
scope(h, e) == [heap |-> Append(h, Env(e, EmptyVars)), env |-> Len(h) + 1]

\* Interpreter.execute on a Block (also _eval_block): the statements in order,
\* the value of the last one; an empty body yields None.
execute ==
    /\ Evaluating("Block")
    /\ IF ctrl.node.body = <<>>
       THEN ctrl' = Ret(NoneV) /\ kont' = kont
       ELSE /\ kont' = Push([f |-> "execute", body |-> ctrl.node.body, i |-> 1])
            /\ ctrl' = Eval(ctrl.node.body[1])
    /\ Tick
    /\ UNCHANGED <<driver, calc, had_error, prog, heap, works, env, out>>

execute_next ==
    /\ Returning("execute")
    /\ IF Top.i < Len(Top.body)
       THEN /\ kont' = Replace([Top EXCEPT !.i = Top.i + 1])
            /\ ctrl' = Eval(Top.body[Top.i + 1])
       ELSE /\ kont' = Pop
            /\ ctrl' = ctrl
    /\ Tick
    /\ UNCHANGED <<driver, calc, had_error, prog, heap, works, env, out>>

_eval_expr_stmt ==
    /\ Evaluating("ExprStmt")
    /\ ctrl' = Eval(ctrl.node.expr)
    /\ Tick
    /\ UNCHANGED <<driver, calc, had_error, prog, kont, heap, works, env, out>>

_eval_literal ==
    /\ Evaluating("Literal")
    /\ ctrl' = Ret(ctrl.node.value)
    /\ Tick
    /\ UNCHANGED <<driver, calc, had_error, prog, kont, heap, works, env, out>>

_eval_variable ==
    /\ Evaluating("Variable")
    /\ LET r == lookup(heap, env, ctrl.node.name)
       IN  IF r.found
           THEN ctrl' = Ret(r.val) /\ had_error' = had_error
           ELSE ctrl' = Raise("CHError", NoneV) /\ had_error' = TRUE
    /\ Tick
    /\ UNCHANGED <<driver, calc, prog, kont, heap, works, env, out>>

\* _eval_assign: val = evaluate(node.val); self.env = self.env.assign(name, val)
_eval_assign ==
    /\ Evaluating("Assign")
    /\ kont' = Push([f |-> "assign", name |-> ctrl.node.name])
    /\ ctrl' = Eval(ctrl.node.val)
    /\ Tick
    /\ UNCHANGED <<driver, calc, had_error, prog, heap, works, env, out>>

_eval_assign_val ==
    /\ Returning("assign")
    /\ LET a == assign(heap, env, Top.name, ctrl.val)
       IN  heap' = a.heap /\ env' = a.env
    /\ kont' = Pop
    /\ ctrl' = ctrl
    /\ Tick
    /\ UNCHANGED <<driver, calc, had_error, prog, works, out>>

\* The operator dispatch of _eval_binary on the two operand values.  The
\* arithmetic and the comparisons are those of two dimensionless CHQuantity
\* operands; `and` and `or` are the host's, on any two values.
BinaryOp(op, left, right) ==
    CASE op = "AND" -> IF Truthy(left) THEN right ELSE left
      [] op = "OR" -> IF Truthy(left) THEN left ELSE right
      [] op = "ADD" /\ left.t = "CHQuantity" /\ right.t = "CHQuantity" ->
           CHQuantity_add(left, right)
      [] op = "SUB" /\ left.t = "CHQuantity" /\ right.t = "CHQuantity" ->
           CHQuantity_sub(left, right)
      [] op = "EQEQ" /\ left.t = "CHQuantity" /\ right.t = "CHQuantity" ->
           BoolV(SD_eq(Magnitude(left), Magnitude(right)))
      [] op = "GE" /\ left.t = "CHQuantity" /\ right.t = "CHQuantity" ->
           BoolV(left.value >= right.value)

\* _eval_binary: left, then right, then the operator.
_eval_binary ==
    /\ Evaluating("Binary")
    /\ kont' = Push([f |-> "binary_left", node |-> ctrl.node])
    /\ ctrl' = Eval(ctrl.node.left)
    /\ Tick
    /\ UNCHANGED <<driver, calc, had_error, prog, heap, works, env, out>>

_eval_binary_left ==
    /\ Returning("binary_left")
    /\ kont' = Replace([f |-> "binary_right", node |-> Top.node, left |-> ctrl.val])
    /\ ctrl' = Eval(Top.node.right)
    /\ Tick
    /\ UNCHANGED <<driver, calc, had_error, prog, heap, works, env, out>>

_eval_binary_right ==
    /\ Returning("binary_right")
    /\ ctrl' = Ret(BinaryOp(Top.node.op, Top.left, ctrl.val))
    /\ kont' = Pop
    /\ Tick
    /\ UNCHANGED <<driver, calc, had_error, prog, heap, works, env, out>>

\* _eval_unary, for `!`: not right.
_eval_unary ==
    /\ Evaluating("Unary")
    /\ kont' = Push([f |-> "unary", op |-> ctrl.node.op])
    /\ ctrl' = Eval(ctrl.node.right)
    /\ Tick
    /\ UNCHANGED <<driver, calc, had_error, prog, heap, works, env, out>>

_eval_unary_right ==
    /\ Returning("unary")
    /\ Top.op = "NOT"
    /\ ctrl' = Ret(BoolV(~Truthy(ctrl.val)))
    /\ kont' = Pop
    /\ Tick
    /\ UNCHANGED <<driver, calc, had_error, prog, heap, works, env, out>>

\* callable(callee) and callee.arity (CHWork.arity, NativeWork.arity).
Callable(v) == v.t \in {"CHWork", "NativeWork"}
arity(v) ==
    IF v.t = "NativeWork" THEN v.arity ELSE Len(works[v.id].declaration.params)

\* callee(self, *args) with the parameters bound in a scope under the caller's
\* environment instead of the closure of the work.
Invoke_in_caller_env(callee, args) ==
    IF callee.t = "NativeWork"
    THEN /\ out' = (IF callee.name = "print" THEN Append(out, args[1]) ELSE out)
         /\ ctrl' = Ret(NoneV)
         /\ kont' = Pop
         /\ UNCHANGED <<heap, env>>
    ELSE LET w == works[callee.id]
             params == w.declaration.params
             zipped == 1..(IF Len(params) < Len(args) THEN Len(params) ELSE Len(args))
             bound == [n \in {params[i] : i \in zipped} |->
                          args[CHOOSE i \in zipped :
                                 /\ params[i] = n
                                 /\ \A j \in zipped : j > i => params[j] # n]]
         IN  /\ heap' = Append(heap, Env(env, bound))
             /\ env' = Len(heap) + 1
             /\ kont' = Replace([f |-> "CHWork_call", prev |-> env])
             /\ ctrl' = Eval(w.declaration.body)
             /\ out' = out

\* callee(self, *args).  NativeWork.__call__ runs the callable (print hands its
\* argument to the output and returns None).  CHWork.__call__ builds
\* Env(closure, params -> args), enters scope(env) and executes the body; its
\* frame keeps prev for the exit of the scope.
Invoke(callee, args) ==
    IF callee.t = "NativeWork"
    THEN /\ out' = (IF callee.name = "print" THEN Append(out, args[1]) ELSE out)
         /\ ctrl' = Ret(NoneV)
         /\ kont' = Pop
         /\ UNCHANGED <<heap, env>>
    ELSE LET w == works[callee.id]
             params == w.declaration.params
             zipped == 1..(IF Len(params) < Len(args) THEN Len(params) ELSE Len(args))
             bound == [n \in {params[i] : i \in zipped} |->
                          args[CHOOSE i \in zipped :
                                 /\ params[i] = n
                                 /\ \A j \in zipped : j > i => params[j] # n]]
         IN  /\ heap' = Append(heap, Env(w.closure, bound))
             /\ env' = Len(heap) + 1
             /\ kont' = Replace([f |-> "CHWork_call", prev |-> env])
             /\ ctrl' = Eval(w.declaration.body)
             /\ out' = out

\* _eval_call: the callee, the callable and arity checks (handler.error sets
\* the flag and the CHError it returns is raised), the arguments left to right,
\* then the call.
_eval_call ==
    /\ Evaluating("Call")
    /\ kont' = Push([f |-> "call_callee", node |-> ctrl.node])
    /\ ctrl' = Eval(ctrl.node.callee)
    /\ Tick
    /\ UNCHANGED <<driver, calc, had_error, prog, heap, works, env, out>>

\* _eval_call without the comparison of len(node.args) with callee.arity.
_eval_call_callee_no_arity ==
    /\ Returning("call_callee")
    /\ IF ~Callable(ctrl.val)
       THEN /\ ctrl' = Raise("CHError", NoneV)
            /\ had_error' = TRUE
            /\ kont' = Pop
            /\ UNCHANGED <<heap, env, out>>
       ELSE IF Top.node.args = <<>>
       THEN Invoke(ctrl.val, <<>>) /\ had_error' = had_error
       ELSE /\ kont' = Replace([f |-> "call_args", node |-> Top.node,
                                callee |-> ctrl.val, args |-> <<>>])
            /\ ctrl' = Eval(Top.node.args[1])
            /\ UNCHANGED <<heap, env, out, had_error>>
    /\ Tick
    /\ UNCHANGED <<driver, calc, prog, works>>

_eval_call_callee ==
    /\ Returning("call_callee")
    /\ IF ~Callable(ctrl.val) \/ Len(Top.node.args) # arity(ctrl.val)
       THEN /\ ctrl' = Raise("CHError", NoneV)
            /\ had_error' = TRUE
            /\ kont' = Pop
            /\ UNCHANGED <<heap, env, out>>
       ELSE IF Top.node.args = <<>>
       THEN Invoke(ctrl.val, <<>>) /\ had_error' = had_error
       ELSE /\ kont' = Replace([f |-> "call_args", node |-> Top.node,
                                callee |-> ctrl.val, args |-> <<>>])
            /\ ctrl' = Eval(Top.node.args[1])
            /\ UNCHANGED <<heap, env, out, had_error>>
    /\ Tick
    /\ UNCHANGED <<driver, calc, prog, works>>

_eval_call_args ==
    /\ Returning("call_args")
    /\ LET args == Append(Top.args, ctrl.val)
       IN  IF Len(args) < Len(Top.node.args)
           THEN /\ kont' = Replace([Top EXCEPT !.args = args])
                /\ ctrl' = Eval(Top.node.args[Len(args) + 1])
                /\ UNCHANGED <<heap, env, out>>
           ELSE Invoke(Top.callee, args)
    /\ Tick
    /\ UNCHANGED <<driver, calc, had_error, prog, works>>

\* CHWork.__call__, the body returned without a submit: the value of the body;
\* the scope exits and self.env = prev.
CHWork_call_return ==
    /\ Returning("CHWork_call")
    /\ env' = Top.prev
    /\ kont' = Pop
    /\ ctrl' = ctrl
    /\ Tick
    /\ UNCHANGED <<driver, calc, had_error, prog, heap, works, out>>

\* CHWork.__call__ with the SubmitError caught outside the scope: the scope
\* never reaches its exit and self.env stays the callee's.
CHWork_call_submit_outside_scope ==
    /\ steps < MaxSteps
    /\ ctrl.m = "raise" /\ ctrl.exc = "SubmitError"
    /\ kont # <<>> /\ Top.f = "CHWork_call"
    /\ kont' = Pop
    /\ ctrl' = Ret(ctrl.val)
    /\ Tick
    /\ UNCHANGED <<driver, calc, had_error, prog, heap, works, env, out>>

\* CHWork.__call__, `except SubmitError as e: return e.res`, inside the scope:
\* the scope exits normally and self.env = prev.
CHWork_call_submit ==
    /\ steps < MaxSteps
    /\ ctrl.m = "raise" /\ ctrl.exc = "SubmitError"
    /\ kont # <<>> /\ Top.f = "CHWork_call"
    /\ env' = Top.prev
    /\ kont' = Pop
    /\ ctrl' = Ret(ctrl.val)
    /\ Tick
    /\ UNCHANGED <<driver, calc, had_error, prog, heap, works, out>>

\* An exception leaving a host frame that does not catch it.  scope() has no
\* try/finally around its yield: self.env is left as it is.
propagate ==
    /\ steps < MaxSteps
    /\ ctrl.m = "raise"
    /\ kont # <<>>
    /\ ~(ctrl.exc = "SubmitError" /\ Top.f = "CHWork_call")
    /\ kont' = Pop
    /\ Tick
    /\ UNCHANGED <<driver, calc, had_error, prog, ctrl, heap, works, env, out>>

\* _eval_exam without its elif: a falsy condition yields None whatever follows.
ExamBranch_no_fail(node, cond) ==
    IF Truthy(cond) THEN node.pass_stmt ELSE NoneNode

\* _eval_exam: the condition, then the pass branch, else the fail branch when
\* there is one, else None; a Block branch runs inside scope().
ExamBranch(node, cond) ==
    IF Truthy(cond) THEN node.pass_stmt
    ELSE IF node.fail_stmt.k # "None" THEN node.fail_stmt
    ELSE NoneNode

_eval_exam ==
    /\ Evaluating("Exam")
    /\ kont' = Push([f |-> "exam", node |-> ctrl.node])
    /\ ctrl' = Eval(ctrl.node.cond)
    /\ Tick
    /\ UNCHANGED <<driver, calc, had_error, prog, heap, works, env, out>>

_eval_exam_cond ==
    /\ Returning("exam")
    /\ LET branch == ExamBranch(Top.node, ctrl.val)
       IN  IF branch.k = "None"
           THEN /\ ctrl' = Ret(NoneV)
                /\ kont' = Pop
                /\ UNCHANGED <<heap, env>>
           ELSE IF branch.k = "Block"
           THEN LET s == scope(heap, env)
                IN  /\ heap' = s.heap
                    /\ env' = s.env
                    /\ kont' = Replace([f |-> "scope", prev |-> env])
                    /\ ctrl' = Eval(branch)
           ELSE /\ ctrl' = Eval(branch)
                /\ kont' = Pop
                /\ UNCHANGED <<heap, env>>
    /\ Tick
    /\ UNCHANGED <<driver, calc, had_error, prog, works, out>>

\* The normal exit of `with self.scope()`: self.env = prev.
scope_exit ==
    /\ Returning("scope")
    /\ env' = Top.prev
    /\ kont' = Pop
    /\ ctrl' = ctrl
    /\ Tick
    /\ UNCHANGED <<driver, calc, had_error, prog, heap, works, out>>

\* _eval_during: inside one scope(), while the condition is truthy execute the
\* body and append its value; the value is the list of results.
_eval_during ==
    /\ Evaluating("During")
    /\ LET s == scope(heap, env)
       IN  heap' = s.heap /\ env' = s.env
    /\ kont' = Push([f |-> "during", node |-> ctrl.node, prev |-> env,
                     results |-> <<>>, at |-> "cond"])
    /\ ctrl' = Eval(ctrl.node.cond)
    /\ Tick
    /\ UNCHANGED <<driver, calc, had_error, prog, works, out>>

_eval_during_cond ==
    /\ Returning("during")
    /\ Top.at = "cond"
    /\ IF Truthy(ctrl.val)
       THEN /\ kont' = Replace([Top EXCEPT !.at = "body"])
            /\ ctrl' = Eval(Top.node.body)
            /\ env' = env
       ELSE /\ kont' = Pop
            /\ ctrl' = Ret(ListV(Top.results))
            /\ env' = Top.prev
    /\ Tick
    /\ UNCHANGED <<driver, calc, had_error, prog, heap, works, out>>

\* _eval_during with `if` in the place of `while`: the loop ends after the
\* first execution of the body.
_eval_during_body_once ==
    /\ Returning("during")
    /\ Top.at = "body"
    /\ kont' = Pop
    /\ ctrl' = Ret(ListV(Append(Top.results, ctrl.val)))
    /\ env' = Top.prev
    /\ Tick
    /\ UNCHANGED <<driver, calc, had_error, prog, heap, works, out>>

_eval_during_body ==
    /\ Returning("during")
    /\ Top.at = "body"
    /\ kont' = Replace([Top EXCEPT !.at = "cond", !.results = Append(Top.results, ctrl.val)])
    /\ ctrl' = Eval(Top.node.cond)
    /\ Tick
    /\ UNCHANGED <<driver, calc, had_error, prog, heap, works, env, out>>

\* int(x) of a SignificantDigits x: the class defines none of __int__,
\* __index__ and __trunc__, so the host raises TypeError.
SignificantDigits_int(m) == [ok |-> FALSE, exc |-> "TypeError", val |-> 0]

\* _eval_interval, once both ends are evaluated: the type check, then
\* range(int(start.magnitude), int(end.magnitude)) as CHQuantity values.
IntervalValues(start, end) ==
    IF start.t # "CHQuantity" /\ end.t = "CHQuantity"
    THEN [ok |-> FALSE, exc |-> "CHError", items |-> <<>>]
    ELSE LET lo == SignificantDigits_int(Magnitude(start))
             hi == SignificantDigits_int(Magnitude(end))
         IN  IF ~lo.ok THEN [ok |-> FALSE, exc |-> lo.exc, items |-> <<>>]
             ELSE IF ~hi.ok THEN [ok |-> FALSE, exc |-> hi.exc, items |-> <<>>]
             ELSE [ok |-> TRUE, exc |-> "",
                   items |-> [i \in 1..(IF hi.val > lo.val THEN hi.val - lo.val ELSE 0) |->
                                NumLiteral(lo.val + i - 1)]]

_eval_interval ==
    /\ Evaluating("Interval")
    /\ kont' = Push([f |-> "interval_start", node |-> ctrl.node])
    /\ ctrl' = Eval(ctrl.node.start)
    /\ Tick
    /\ UNCHANGED <<driver, calc, had_error, prog, heap, works, env, out>>

_eval_interval_start ==
    /\ Returning("interval_start")
    /\ kont' = Replace([f |-> "interval_end", node |-> Top.node, start |-> ctrl.val])
    /\ ctrl' = Eval(Top.node.end)
    /\ Tick
    /\ UNCHANGED <<driver, calc, had_error, prog, heap, works, env, out>>

_eval_interval_end ==
    /\ Returning("interval_end")
    /\ LET r == IntervalValues(Top.start, ctrl.val)
       IN  ctrl' = IF r.ok THEN Ret(ListV(r.items)) ELSE Raise(r.exc, NoneV)
    /\ kont' = Pop
    /\ Tick
    /\ UNCHANGED <<driver, calc, had_error, prog, heap, works, env, out>>

\* One iteration of _eval_redo: self.env = Env(self.env).assign(identifier, i).
RedoBind(h, e, identifier, i) ==
    LET s == scope(h, e)
    IN  assign(s.heap, s.env, identifier, i)

\* _eval_redo: inside one scope(), the interval, then for each of its values
\* bind the loop name and execute the body; the value is the list of results.
_eval_redo ==
    /\ Evaluating("Redo")
    /\ LET s == scope(heap, env)
       IN  heap' = s.heap /\ env' = s.env
    /\ kont' = Push([f |-> "redo", node |-> ctrl.node, prev |-> env, at |-> "interval",
                     items |-> <<>>, i |-> 0, result |-> <<>>])
    /\ ctrl' = Eval(ctrl.node.interval)
    /\ Tick
    /\ UNCHANGED <<driver, calc, had_error, prog, works, out>>

_eval_redo_next ==
    /\ Returning("redo")
    /\ LET fr == Top
           iterable == ctrl.val.t = "list"
           items == IF fr.at = "interval"
                    THEN (IF iterable THEN ctrl.val.items ELSE <<>>)
                    ELSE fr.items
           result == IF fr.at = "interval" THEN <<>> ELSE Append(fr.result, ctrl.val)
       IN  IF fr.at = "interval" /\ ~iterable
           THEN /\ ctrl' = Raise("TypeError", NoneV)
                /\ kont' = Pop
                /\ UNCHANGED <<heap, env>>
           ELSE IF fr.i < Len(items)
           THEN LET b == RedoBind(heap, env, fr.node.identifier, items[fr.i + 1])
                IN  /\ heap' = b.heap
                    /\ env' = b.env
                    /\ kont' = Replace([fr EXCEPT !.at = "body", !.items = items,
                                                  !.i = fr.i + 1, !.result = result])
                    /\ ctrl' = Eval(fr.node.body)
           ELSE /\ ctrl' = Ret(ListV(result))
                /\ kont' = Pop
                /\ env' = fr.prev
                /\ heap' = heap
    /\ Tick
    /\ UNCHANGED <<driver, calc, had_error, prog, works, out>>

\* _eval_work: the CHWork, its closure Env(self.env, {identifier: work}), and
\* the binding of the name in the current environment.
_eval_work ==
    /\ Evaluating("Work")
    /\ LET work == WorkV(Len(works) + 1)
           closure == Len(heap) + 1
           h == Append(heap, Env(env, [n \in {ctrl.node.identifier} |-> work]))
           a == assign(h, env, ctrl.node.identifier, work)
       IN  /\ works' = Append(works, [closure |-> closure, declaration |-> ctrl.node])
           /\ heap' = a.heap
           /\ env' = a.env
           /\ ctrl' = Ret(work)
    /\ Tick
    /\ UNCHANGED <<driver, calc, had_error, prog, kont, out>>

\* _eval_submit: raise SubmitError(evaluate(node.expr)).
_eval_submit ==
    /\ Evaluating("Submit")
    /\ kont' = Push([f |-> "submit"])
    /\ ctrl' = Eval(ctrl.node.expr)
    /\ Tick
    /\ UNCHANGED <<driver, calc, had_error, prog, heap, works, env, out>>

\* _eval_submit that returns the value instead of raising SubmitError.
_eval_submit_expr_no_raise ==
    /\ Returning("submit")
    /\ ctrl' = Ret(ctrl.val)
    /\ kont' = Pop
    /\ Tick
    /\ UNCHANGED <<driver, calc, had_error, prog, heap, works, env, out>>

_eval_submit_expr ==
    /\ Returning("submit")
    /\ ctrl' = Raise("SubmitError", ctrl.val)
    /\ kont' = Pop
    /\ Tick
    /\ UNCHANGED <<driver, calc, had_error, prog, heap, works, env, out>>

Next ==
    \/ execute
    \/ execute_next
    \/ _eval_expr_stmt
    \/ _eval_literal
    \/ _eval_variable
    \/ _eval_assign
    \/ _eval_assign_val
    \/ _eval_binary
    \/ _eval_binary_left
    \/ _eval_binary_right
    \/ _eval_unary
    \/ _eval_unary_right
    \/ _eval_call
    \/ _eval_call_callee
    \/ _eval_call_args
    \/ CHWork_call_return
    \/ CHWork_call_submit
    \/ propagate
    \/ _eval_exam
    \/ _eval_exam_cond
    \/ scope_exit
    \/ _eval_during
    \/ _eval_during_cond
    \/ _eval_during_body
    \/ _eval_interval
    \/ _eval_interval_start
    \/ _eval_interval_end
    \/ _eval_redo
    \/ _eval_redo_next
    \/ _eval_work
    \/ _eval_submit
    \/ _eval_submit_expr

Spec == Init /\ [][Next]_vars

(***************************************************************************)
(* The driver: ch_eval.evaluate called on one source after another, on the *)
(* one interpreter and the one error handler of the package.  A source is  *)
(* a program of the model, or a text that the scanner or the parser        *)
(* reports an error for (through handler.error, which sets the flag).      *)
(***************************************************************************)
Idle == [m |-> "idle"]

ScanError == [name |-> "scan_error"]
ParseError == [name |-> "parse_error"]

SessionSources ==
    {ScanError, ParseError,
     [name |-> "call_error", kind |-> "many"],
     [name |-> "redo", a |-> 0, b |-> 1],
     [name |-> "closure", calls |-> 1],
     [name |-> "truthy", use |-> "exam", v |-> BoolV(TRUE)],
     [name |-> "truthy", use |-> "not", v |-> NoneV],
     [name |-> "redo_list", n |-> 1]}

SessionInit ==
    /\ \E srcs \in SeqsUpTo(SessionSources, MaxInputs) \ {<<>>} :
           prog = Head(srcs) /\ pending = Tail(srcs)
    /\ ctrl = Idle
    /\ kont = <<>>
    /\ heap = <<init_global_env>>
    /\ works = <<>>
    /\ env = 1
    /\ out = <<>>
    /\ steps = 0
    /\ had_error = FALSE
    /\ phase = "tokenize"
    /\ results = <<>>
    /\ calc = NoCalc
    /\ front = NoFront

\* The end of one call of evaluate with the result r: the next call starts on
\* the next source.
EvaluateReturns(r) ==
    /\ results' = Append(results, r)
    /\ ctrl' = Idle
    /\ kont' = <<>>
    /\ steps' = 0
    /\ IF pending = <<>>
       THEN phase' = "done" /\ UNCHANGED <<prog, pending>>
       ELSE phase' = "tokenize" /\ prog' = Head(pending) /\ pending' = Tail(pending)

EmptyResult == [src |-> prog, kind |-> "empty", exc |-> "", val |-> NoneV]

\* tokens = tokenize(code); if handler.had_error: clear it and return "".
evaluate_tokenize ==
    /\ phase = "tokenize"
    /\ LET flag == had_error \/ prog = ScanError
       IN  IF flag
           THEN had_error' = FALSE /\ EvaluateReturns(EmptyResult)
           ELSE /\ phase' = "parse"
                /\ UNCHANGED <<had_error, prog, pending, results, ctrl, kont, steps>>
    /\ UNCHANGED <<heap, works, env, out, calc, front>>

\* ast = parse(tokens); if handler.had_error: clear it and return ""; else
\* interpreter.evaluate(ast) starts.
evaluate_parse ==
    /\ phase = "parse"
    /\ LET flag == had_error \/ prog = ParseError
       IN  IF flag
           THEN had_error' = FALSE /\ EvaluateReturns(EmptyResult)
           ELSE /\ phase' = "evaluate"
                /\ ctrl' = Eval(AST(prog))
                /\ UNCHANGED <<had_error, prog, pending, results, kont, steps>>
    /\ UNCHANGED <<heap, works, env, out, calc, front>>

\* return interpreter.evaluate(ast): the value, or the exception, which leaves
\* evaluate as it is (no handler in ch_eval.py); the flag is not touched.
evaluate_return ==
    /\ phase = "evaluate"
    /\ kont = <<>>
    /\ ctrl.m \in {"ret", "raise"}
    /\ EvaluateReturns(IF ctrl.m = "ret"
                       THEN [src |-> prog, kind |-> "value", exc |-> "", val |-> ctrl.val]
                       ELSE [src |-> prog, kind |-> "raise", exc |-> ctrl.exc, val |-> NoneV])
    /\ UNCHANGED <<had_error, heap, works, env, out, calc, front>>

SessionNext ==
    \/ evaluate_tokenize
    \/ evaluate_parse
    \/ evaluate_return
    \/ Next

SessionSpec == SessionInit /\ [][SessionNext]_vars

(***************************************************************************)
(* SignificantDigits on decimal values (objs/ch_number.py), applied        *)
(* directly to operands.  A Decimal is its signed coefficient and its      *)
(* exponent (value = coef * 10^exp), as Decimal.as_tuple() gives them; a   *)
(* SignificantDigits adds the sig_fig count.  The texts that the class     *)
(* formats and parses again are modelled by their digits.                  *)
(***************************************************************************)
\* The coefficients the model computes with have at most MaxDigits digits; an
\* operation whose exact result needs more is outside the model.
MaxDigits == 7
\* The places a quotient may need beyond the ideal exponent of the division.
MaxShift == 3

RECURSIVE Pow10(_)
Pow10(k) == IF k <= 0 THEN 1 ELSE 10 * Pow10(k - 1)

Min(a, b) == IF a <= b THEN a ELSE b

Dec(coef, exp) == [coef |-> coef, exp |-> exp]

\* SignificantDigits(value, sig_fig) with an explicit count.
SD(d, sig_fig) == [coef |-> d.coef, exp |-> d.exp, sig_fig |-> sig_fig]

\* self.value of a SignificantDigits.
Value(x) == Dec(x.coef, x.exp)

\* str(Decimal) is in scientific notation when the exponent is positive or the
\* adjusted exponent is below -6.
Scientific(d) == d.exp > 0 \/ NumDigits(Abs(d.coef)) - 1 + d.exp < -6

\* _parse_significant_digits of a fixed-point text: an optional minus sign, the
\* integer part ip and dp decimals that read frac.  Without a point the text is
\* stripped of its trailing zeros and measured; with integer part "0" the
\* decimals are stripped of their leading zeros and measured; otherwise the
\* integer part (sign included, "-0" too) and all decimals are measured.
_parse_significant_digits_fixed(neg, ip, frac, dp) ==
    LET sign == IF neg THEN 1 ELSE 0
    IN  IF dp = 0
        THEN IF ip = 0 THEN sign ELSE NumDigits(StripZeros(ip)) + sign
        ELSE IF ~neg /\ ip = 0
             THEN IF frac = 0 THEN 0 ELSE NumDigits(frac)
             ELSE NumDigits(ip) + sign + dp

\* _parse_significant_digits(str(d)) of a Decimal d: in scientific notation the
\* text before the E without its point, else the fixed-point text.
_parse_significant_digits_decimal(d) ==
    LET neg == d.coef < 0
        m == Abs(d.coef)
    IN  IF Scientific(d)
        THEN NumDigits(m) + (IF neg THEN 1 ELSE 0)
        ELSE _parse_significant_digits_fixed(neg, m \div Pow10(-d.exp),
                                             m % Pow10(-d.exp), -d.exp)

\* SignificantDigits(text) of a literal whose text is str(Decimal(text)).
SignificantDigitsOfLiteral(d) == SD(d, _parse_significant_digits_decimal(d))

\* m / 10^k rounded to an integer, halves away from zero (the package sets the
\* decimal context to ROUND_HALF_UP).
RoundHalfUp(m, k) ==
    IF k <= 0 THEN m * Pow10(-k) ELSE (m + Pow10(k) \div 2) \div Pow10(k)

\* _parse_significant_digits(f"{d:.0{precision}f}") for precision >= 0.
SigFigOfFormat(d, precision) ==
    LET scaled == RoundHalfUp(Abs(d.coef), -d.exp - precision)
    IN  _parse_significant_digits_fixed(d.coef < 0, scaled \div Pow10(precision),
                                        scaled % Pow10(precision), precision)

_get_decimal_places(x) == -x.exp

\* _get_significant_digits: the sig_fig of a SignificantDigits, the parsed count
\* of anything else.
_get_significant_digits(x) == x.sig_fig

\* Decimal + Decimal, Decimal - Decimal, Decimal * Decimal: exact.
Decimal_add(x, y) ==
    LET e == Min(x.exp, y.exp)
    IN  Dec(x.coef * Pow10(x.exp - e) + y.coef * Pow10(y.exp - e), e)

Decimal_sub(x, y) == Decimal_add(x, Dec(-y.coef, y.exp))

Decimal_mul(x, y) == Dec(x.coef * y.coef, x.exp + y.exp)

\* The least number of places beyond the ideal exponent with which x / y is
\* exact (MaxShift + 1 when there is none within MaxShift).
RECURSIVE DivShift(_, _, _)
DivShift(x, y, k) ==
    IF k > MaxShift \/ (Abs(x.coef) * Pow10(k)) % Abs(y.coef) = 0
    THEN k
    ELSE DivShift(x, y, k + 1)

\* Decimal / Decimal when the quotient is exact: the exponent is the ideal one
\* (x.exp - y.exp), lowered by the places the quotient needs.
Decimal_div(x, y) ==
    LET k == DivShift(x, y, 0)
        sign == IF (x.coef < 0) = (y.coef < 0) THEN 1 ELSE -1
    IN  Dec(sign * ((Abs(x.coef) * Pow10(k)) \div Abs(y.coef)), x.exp - y.exp - k)

\* The outcome of an operation: a value, or an exception.
Returns(val) == [raised |-> FALSE, val |-> val]
Raises(exc) == [raised |-> TRUE, exc |-> exc]

\* SignificantDigits.__add__ with the decimal places taken from the larger
\* operand: max in the place of min.
SignificantDigits__add__max_places(self, other) ==
    LET a == _get_decimal_places(self)
        b == _get_decimal_places(other)
        precision == IF a >= b THEN a ELSE b
        result == Decimal_add(Value(self), Value(other))
    IN  IF precision < 0
        THEN Raises("ValueError")
        ELSE Returns(SD(result, SigFigOfFormat(result, precision)))

\* SignificantDigits.__add__: the exact sum, its count parsed from the sum
\* formatted with min(decimal places) decimals; the format specification
\* ".0{precision}f" is invalid for a negative precision (ValueError).
SignificantDigits__add__(self, other) ==
    LET precision == Min(_get_decimal_places(self), _get_decimal_places(other))
        result == Decimal_add(Value(self), Value(other))
    IN  IF precision < 0
        THEN Raises("ValueError")
        ELSE Returns(SD(result, SigFigOfFormat(result, precision)))

\* SignificantDigits.__sub__.
SignificantDigits__sub__(self, other) ==
    LET precision == Min(_get_decimal_places(self), _get_decimal_places(other))
        result == Decimal_sub(Value(self), Value(other))
    IN  IF precision < 0
        THEN Raises("ValueError")
        ELSE Returns(SD(result, SigFigOfFormat(result, precision)))

\* SignificantDigits.__mul__: the count is the smaller of the count parsed from
\* str(self.value) (self.value is a Decimal, so self.sig_fig is not read) and
\* the count of other.
SignificantDigits__mul__(self, other) ==
    LET precision == Min(_parse_significant_digits_decimal(Value(self)),
                         _get_significant_digits(other))
    IN  Returns(SD(Decimal_mul(Value(self), Value(other)), precision))

\* SignificantDigits.__truediv__.
SignificantDigits__truediv__(self, other) ==
    LET precision == Min(_parse_significant_digits_decimal(Value(self)),
                         _get_significant_digits(other))
    IN  Returns(SD(Decimal_div(Value(self), Value(other)), precision))

\* The text of a value in the format "g": its sign, digits and exponent.
TextG(neg, m, e) == [text |-> "g", coef |-> (IF neg THEN -m ELSE m), exp |-> e]

\* The digits r that rounding to sig digits left: a carry into one more digit
\* drops the last one.
Rounded(neg, r, e, sig) ==
    IF NumDigits(r) > sig THEN TextG(neg, r \div 10, e + 1) ELSE TextG(neg, r, e)

\* "{value:.{sig_fig}g}" of a value of n digits: rounded to sig_fig
\* significant digits when it has more.
FormatG(x, n) ==
    IF n <= x.sig_fig
    THEN TextG(x.coef < 0, Abs(x.coef), x.exp)
    ELSE Rounded(x.coef < 0, RoundHalfUp(Abs(x.coef), n - x.sig_fig),
                 x.exp + n - x.sig_fig, x.sig_fig)

\* SignificantDigits.__str__: "NA" for the count 0, else the value in the
\* format "g"; the digits and the exponent of the text are kept.
SignificantDigits__str__(x) ==
    IF x.sig_fig = 0 THEN [text |-> "NA"] ELSE FormatG(x, NumDigits(Abs(x.coef)))

\* The literals the operands are built from, as (coefficient, exponent):
\* 1.2434, 1.2, 1.3, 23.2234, 1.000, 2, 4, 10, 100, 1e3, 0.5, 0.04, 9.96.
Literals ==
    {Dec(12434, -4), Dec(12, -1), Dec(13, -1), Dec(232234, -4), Dec(1000, -3),
     Dec(2, 0), Dec(4, 0), Dec(10, 0), Dec(100, 0), Dec(1, 3), Dec(5, -1),
     Dec(4, -2), Dec(996, -2)}

\* SignificantDigits(text) of each literal, and SignificantDigits("1.2434", 2).
Operands ==
    {SignificantDigitsOfLiteral(d) : d \in Literals} \cup {SD(Dec(12434, -4), 2)}

\* The interpreter and the driver at rest.
AtRest ==
    /\ prog = [name |-> "operands"]
    /\ ctrl = Idle
    /\ kont = <<>>
    /\ heap = <<init_global_env>>
    /\ works = <<>>
    /\ env = 1
    /\ out = <<>>
    /\ steps = 0
    /\ had_error = FALSE
    /\ phase = "done"
    /\ pending = <<>>
    /\ results = <<>>

NumberInit ==
    /\ AtRest
    /\ front = NoFront
    /\ \E a \in Operands, b \in Operands, c \in Operands :
           calc = [operands |-> <<a, b, c>>, trail |-> <<>>]

\* The operands of the next operation: the first operand or the result of the
\* operation before on the left, the next operand on the right.
Last == calc.trail[Len(calc.trail)]
Left == IF calc.trail = <<>> THEN calc.operands[1] ELSE Last.outcome.val
Right == calc.operands[Len(calc.trail) + 2]

CanApply ==
    /\ Len(calc.trail) + 2 <= Len(calc.operands)
    /\ calc.trail # <<>> => ~Last.outcome.raised

\* The aligned coefficients of a sum, and the coefficient of a product, are
\* within MaxDigits digits.
FitsSum(x, y) ==
    LET e == Min(x.exp, y.exp)
    IN  /\ NumDigits(Abs(x.coef)) + (x.exp - e) <= MaxDigits
        /\ NumDigits(Abs(y.coef)) + (y.exp - e) <= MaxDigits

FitsProduct(x, y) == NumDigits(Abs(x.coef)) + NumDigits(Abs(y.coef)) <= MaxDigits

\* The quotient is exact within MaxShift places and MaxDigits digits.
FitsQuotient(x, y) ==
    /\ y.coef # 0
    /\ NumDigits(Abs(x.coef)) + MaxShift <= MaxDigits
    /\ DivShift(x, y, 0) <= MaxShift

Apply(op, outcome) ==
    /\ calc' = [calc EXCEPT !.trail = Append(@, [op |-> op, left |-> Left,
                                                 right |-> Right, outcome |-> outcome])]
    /\ UNCHANGED <<prog, ctrl, kont, heap, works, env, out, steps, had_error, driver>>

number_add ==
    /\ CanApply /\ FitsSum(Left, Right)
    /\ Apply("add", SignificantDigits__add__(Left, Right))

number_sub ==
    /\ CanApply /\ FitsSum(Left, Right)
    /\ Apply("sub", SignificantDigits__sub__(Left, Right))

number_mul ==
    /\ CanApply /\ FitsProduct(Left, Right)
    /\ Apply("mul", SignificantDigits__mul__(Left, Right))

number_truediv ==
    /\ CanApply /\ FitsQuotient(Left, Right)
    /\ Apply("truediv", SignificantDigits__truediv__(Left, Right))

NumberNext ==
    \/ number_add
    \/ number_sub
    \/ number_mul
    \/ number_truediv

NumberSpec == NumberInit /\ [][NumberNext]_vars

(***************************************************************************)
(* CHQuantity arithmetic (objs/ch_quantity.py) and the algebra of formula  *)
(* units (objs/ch_chemistry.py), applied directly to operands.  A formula  *)
(* is None or a FormulaUnit, the tuple of its formulas; a CHFormula is its *)
(* name (its equality is structural).  A unit is the exponent of mole in   *)
(* it: 0 is ureg.dimensionless, 1 is ureg.mol.  The unit registry compares,*)
(* multiplies and divides the units and applies the operator of the        *)
(* operation to the two magnitudes.                                        *)
(***************************************************************************)
FormulaUnit(formulas) == [t |-> "FormulaUnit", formulas |-> formulas]

formulaless == FormulaUnit(<<>>)

dimensionless == 0
mol == 1

\* _parse_significant_digits of the text of a SignificantDigits: "NA" has
\* two characters.
SigFigOfText(g) ==
    IF g.text = "NA" THEN 2 ELSE _parse_significant_digits_decimal(Dec(g.coef, g.exp))

\* CHNumber(x) of a SignificantDigits x: the value of x, the count parsed from
\* str(x).
CHNumber(x) == SD(Value(x), SigFigOfText(SignificantDigits__str__(x)))

\* CHQuantity.__init__: the magnitude is wrapped in CHNumber.
CHQuantityOf(formula, magnitude, unit) ==
    [formula |-> formula, magnitude |-> CHNumber(magnitude), unit |-> unit]

\* bool(formula): None and the empty FormulaUnit are false.
FormulaUnit__bool__(f) == f # NoneV /\ f.formulas # <<>>

\* formula is None or formula == FormulaUnit.formulaless.
IsFormulaless(f) == f = NoneV \/ f = formulaless

\* FormulaUnit.__add__, also __sub__ (self + (-other), negation the identity),
\* with a FormulaUnit on the right; None on the left has no such operator.
FormulaUnit__add__(self, other) ==
    IF self = NoneV THEN Raises("TypeError")
    ELSE IF self.formulas = other.formulas THEN Returns(self)
    ELSE Raises("CHError")

\* FormulaUnit.__mul__: the formulas of self, then the formulas of other.
FormulaUnit__mul__(self, other) ==
    IF self = NoneV THEN Raises("TypeError")
    ELSE Returns(FormulaUnit(self.formulas \o other.formulas))

\* list.remove: the list without the first occurrence of x (x occurs).
RECURSIVE Remove(_, _)
Remove(list, x) ==
    IF Head(list) = x THEN Tail(list) ELSE <<Head(list)>> \o Remove(Tail(list), x)

\* FormulaUnit.__truediv__: each formula of other in turn is removed from the
\* formulas of self; a formula that is not there is an error.
RECURSIVE RemoveAll(_, _)
RemoveAll(result, formulas) ==
    IF formulas = <<>> THEN Returns(FormulaUnit(result))
    ELSE IF \E i \in DOMAIN result : result[i] = Head(formulas)
         THEN RemoveAll(Remove(result, Head(formulas)), Tail(formulas))
         ELSE Raises("CHError")

FormulaUnit__truediv__(self, other) ==
    IF self = NoneV THEN Raises("TypeError")
    ELSE RemoveAll(self.formulas, other.formulas)

\* The second part of CHQuantity.match_quantity, the units: equal; or the
\* dimensionless operand adopts the unit of the other, b before a; or b is
\* converted to the unit of a, which the registry refuses for two different
\* powers of mole.
match_units(a, b) ==
    IF a.unit = b.unit THEN Returns(<<a, b>>)
    ELSE IF b.unit = dimensionless
         THEN Returns(<<a, CHQuantityOf(a.formula, b.magnitude, a.unit)>>)
    ELSE IF a.unit = dimensionless
         THEN Returns(<<CHQuantityOf(b.formula, a.magnitude, b.unit), b>>)
    ELSE Raises("CHError")

\* CHQuantity.match_quantity without a reaction context: the formulas first (a
\* null or formulaless operand adopts the formula of the other, b before a;
\* two other different formulas are an error), then the units.
match_quantity(a, b) ==
    IF a.formula = b.formula THEN match_units(a, b)
    ELSE IF IsFormulaless(b.formula)
         THEN match_units(a, CHQuantityOf(a.formula, b.magnitude, b.unit))
    ELSE IF IsFormulaless(a.formula)
         THEN match_units(CHQuantityOf(b.formula, a.magnitude, a.unit), b)
    ELSE Raises("CHError")

\* SignificantDigits defines no __mod__: the registry's a % b on two
\* magnitudes is a TypeError of the host.
SignificantDigits__mod__(self, other) == Raises("TypeError")

\* a.quantity op b.quantity: the registry applies the operator to the two
\* magnitudes, and gives the units of a to a sum, a difference and a
\* remainder, their product to a product and their quotient to a quotient.
OfMagnitudes(op, x, y) ==
    CASE op = "add" -> SignificantDigits__add__(x, y)
      [] op = "sub" -> SignificantDigits__sub__(x, y)
      [] op = "mod" -> SignificantDigits__mod__(x, y)
      [] op = "mul" -> SignificantDigits__mul__(x, y)
      [] op = "truediv" -> SignificantDigits__truediv__(x, y)

OfUnits(op, u, v) ==
    CASE op \in {"add", "sub", "mod"} -> u
      [] op = "mul" -> u + v
      [] op = "truediv" -> u - v

\* self.formula + other.formula (also for - and %), self.formula *
\* other.formula, self.formula / other.formula.
OfFormulas(op, f, g) ==
    CASE op \in {"add", "sub", "mod"} -> FormulaUnit__add__(f, g)
      [] op = "mul" -> FormulaUnit__mul__(f, g)
      [] op = "truediv" -> FormulaUnit__truediv__(f, g)

\* The body the binary operators share, from its end to its start.
\* CHQuantity(formula, CHNumber(result.magnitude), result.units), unless the
\* formula could not be formed.
Formed(formula, magnitude, units) ==
    IF formula.raised THEN formula
    ELSE Returns(CHQuantityOf(formula.val, CHNumber(magnitude), units))

\* result = a.quantity op b.quantity; then the formula: self.formula combined
\* with other.formula when other.formula is true, self.formula when not.
Computed(op, self, other, a, b, result) ==
    IF result.raised THEN result
    ELSE Formed(IF FormulaUnit__bool__(other.formula)
                THEN OfFormulas(op, self.formula, other.formula)
                ELSE Returns(self.formula),
                result.val, OfUnits(op, a.unit, b.unit))

\* a, b = self.match_quantity(self, other).
Matched(op, self, other, m) ==
    IF m.raised THEN m
    ELSE Computed(op, self, other, m.val[1], m.val[2],
                  OfMagnitudes(op, m.val[1].magnitude, m.val[2].magnitude))

Combine(op, self, other) == Matched(op, self, other, match_quantity(self, other))

CHQuantity__add__(self, other) == Combine("add", self, other)
CHQuantity__sub__(self, other) == Combine("sub", self, other)
CHQuantity__mod__(self, other) == Combine("mod", self, other)
CHQuantity__mul__(self, other) == Combine("mul", self, other)
CHQuantity__truediv__(self, other) == Combine("truediv", self, other)

\* CHQuantity.__pow__: an exponent with a unit is refused through the handler;
\* then int(other.magnitude) is evaluated, and SignificantDigits has no
\* __int__: the comparison with 0.0001 and the loop of multiplications after
\* it are not reached.
CHQuantity__pow__(self, other) ==
    IF other.unit # dimensionless THEN Raises("CHError")
    ELSE Raises(SignificantDigits_int(other.magnitude).exc)

\* The operands: a formula (None, formulaless, H2O, O2, or H2O and O2), a
\* magnitude (2 or 2.5) and a unit (dimensionless or mole).
Formulas ==
    {NoneV, formulaless, FormulaUnit(<<"H2O">>), FormulaUnit(<<"O2">>),
     FormulaUnit(<<"H2O", "O2">>)}

Quantities ==
    {CHQuantityOf(f, SignificantDigitsOfLiteral(d), u) :
         f \in Formulas, d \in {Dec(2, 0), Dec(25, -1)}, u \in {dimensionless, mol}}

QuantityInit ==
    /\ AtRest
    /\ front = NoFront
    /\ \E a \in Quantities, b \in Quantities :
           calc = [operands |-> <<a, b>>, trail |-> <<>>]

\* One operation on the two operands; an error raised through the handler
\* (handler.error with no token) sets its flag.
ApplyQuantity(op, outcome) ==
    /\ CanApply
    /\ calc' = [calc EXCEPT !.trail = Append(@, [op |-> op, left |-> Left,
                                                 right |-> Right, outcome |-> outcome])]
    /\ had_error' = (had_error \/ (outcome.raised /\ outcome.exc = "CHError"))
    /\ UNCHANGED <<prog, ctrl, kont, heap, works, env, out, steps, driver>>

quantity_add == ApplyQuantity("add", CHQuantity__add__(Left, Right))
quantity_sub == ApplyQuantity("sub", CHQuantity__sub__(Left, Right))
quantity_mod == ApplyQuantity("mod", CHQuantity__mod__(Left, Right))
quantity_mul == ApplyQuantity("mul", CHQuantity__mul__(Left, Right))
quantity_truediv == ApplyQuantity("truediv", CHQuantity__truediv__(Left, Right))
quantity_pow == ApplyQuantity("pow", CHQuantity__pow__(Left, Right))

QuantityNext ==
    \/ quantity_add
    \/ quantity_sub
    \/ quantity_mod
    \/ quantity_mul
    \/ quantity_truediv
    \/ quantity_pow

QuantitySpec == QuantityInit /\ [][QuantityNext]_vars

(***************************************************************************)
(* The scanner (ch_scanner.py).  A text is a sequence of characters; the   *)
(* scanner keeps its position (current counts the characters consumed),    *)
(* the start-of-line mark, the stack of indentation depths and the tokens  *)
(* emitted.  errors holds the messages it gave to handler.error, raised    *)
(* the exception of the host that ended the scan, if any.                  *)
(***************************************************************************)
MaxText == 6

Lower == {"a", "b", "c", "d", "e", "f", "g", "h", "i", "j", "k", "l", "m",
          "n", "o", "p", "q", "r", "s", "t", "u", "v", "w", "x", "y", "z"}
\* The capitals of the texts of the model; each begins an element symbol.
Upper == {"B", "N", "O", "S", "T", "U"}
Digit == {"0", "1", "2", "3", "4", "5", "6", "7", "8", "9"}

isalpha(c) == c \in Lower \cup Upper
isalnum(c) == c \in Lower \cup Upper \cup Digit
isspace(c) == c \in {" ", "\t", "\n"}

\* Scanner.WHITESPACE: the depth a character of indentation counts for.
WHITESPACE(c) == CASE c = " " -> 1 [] c = "\t" -> 4 [] OTHER -> 0

\* Scanner.KEYWORDS, and the name of the TokenType of each.
KEYWORDS ==
    {<<"n", "a">>, <<"e", "x", "a", "m">>, <<"d", "o", "n", "e">>,
     <<"s", "u", "b", "m", "i", "t">>, <<"p", "a", "s", "s">>, <<"f", "a", "i", "l">>,
     <<"r", "e", "d", "o">>, <<"d", "u", "r", "i", "n", "g">>,
     <<"m", "a", "k", "e", "u", "p">>, <<"o", "f">>, <<"w", "o", "r", "k">>,
     <<"d", "o", "c">>}

\* TokenType(text): the member of the enumeration with that value, by name.
TokenType(text) ==
    CASE text = <<"(">> -> "LPAREN"
      [] text = <<")">> -> "RPAREN"
      [] text = <<",">> -> "COMMA"
      [] text = <<"+">> -> "ADD"
      [] text = <<"+", "=">> -> "ADDEQ"
      [] text = <<"-">> -> "SUB"
      [] text = <<"-", "=">> -> "SUBEQ"
      [] text = <<"-", ">">> -> "TO"
      [] text = <<"!">> -> "NOT"
      [] text = <<"!", "=">> -> "NOEQ"
      [] text = <<"=">> -> "EQ"
      [] text = <<"=", "=">> -> "EQEQ"
      [] text = <<"n", "a">> -> "NA"
      [] text = <<"e", "x", "a", "m">> -> "EXAM"
      [] text = <<"d", "o", "n", "e">> -> "DONE"
      [] text = <<"s", "u", "b", "m", "i", "t">> -> "SUBMIT"
      [] text = <<"p", "a", "s", "s">> -> "PASS"
      [] text = <<"f", "a", "i", "l">> -> "FAIL"
      [] text = <<"r", "e", "d", "o">> -> "REDO"
      [] text = <<"d", "u", "r", "i", "n", "g">> -> "DURING"
      [] text = <<"m", "a", "k", "e", "u", "p">> -> "MAKEUP"
      [] text = <<"o", "f">> -> "OF"
      [] text = <<"w", "o", "r", "k">> -> "WORK"
      [] text = <<"d", "o", "c">> -> "DOC"

\* The names the unit registry knows, among the identifiers of the texts, and
\* ureg(identifier).units, by its name.
Units == {<<"g">>, <<"g", "r", "a", "m">>, <<"m", "o", "l">>, <<"m", "o", "l", "e">>}
UnitNamed(identifier) ==
    IF identifier \in {<<"g">>, <<"g", "r", "a", "m">>} THEN <<"g", "r", "a", "m">>
    ELSE <<"m", "o", "l", "e">>

\* Scanner.chem_start_letter for the capitals of the texts: the second
\* letters of the element symbols that begin with the capital, "" when the
\* capital alone is a symbol.
chem_start_letter(c) ==
    CASE c = "B" -> {"", "a", "e", "h", "i", "k", "r"}
      [] c = "N" -> {"", "a", "b", "d", "e", "h", "i", "o", "p"}
      [] c = "O" -> {"", "g", "s"}
      [] c = "S" -> {"", "b", "c", "e", "g", "i", "m", "n", "r"}
      [] c = "T" -> {"a", "b", "c", "e", "h", "i", "l", "m", "s"}
      [] c = "U" -> {""}
      [] OTHER -> {}

Token(type, val) == [type |-> type, val |-> val]

\* str.strip() of the text.
RECURSIVE lstrip(_)
lstrip(text) ==
    IF text # <<>> /\ isspace(Head(text)) THEN lstrip(Tail(text)) ELSE text

RECURSIVE rstrip(_)
rstrip(text) ==
    IF text # <<>> /\ isspace(text[Len(text)])
    THEN rstrip(SubSeq(text, 1, Len(text) - 1))
    ELSE text

strip(text) == rstrip(lstrip(text))

\* Scanner.__init__.
Scanner(input_string) ==
    [input |-> strip(input_string), current |-> 0, start |-> 0,
     start_of_line |-> TRUE, indent_stack |-> <<>>, tokens |-> <<>>,
     errors |-> <<>>, raised |-> ""]

Scanner_end(s) == s.current >= Len(s.input)
Scanner_peek(s) == IF Scanner_end(s) THEN "" ELSE s.input[s.current + 1]
Scanner_advance(s) == IF Scanner_end(s) THEN s ELSE [s EXCEPT !.current = @ + 1]
\* Scanner.match: the scanner after it, and whether a character was taken.
Scanner_match(s, chars) == IF Scanner_peek(s) \in chars THEN [s EXCEPT !.current = @ + 1] ELSE s
Matches(s, chars) == Scanner_peek(s) \in chars
proceed(s) == [s EXCEPT !.start = s.current]
add_token(s, type, val) == [s EXCEPT !.tokens = Append(@, Token(type, val))]
\* handler.error(message, self.line): the message is logged; the flag is the
\* handler's.
Scanner_error(s, message) == [s EXCEPT !.errors = Append(@, message)]
ScannerRaises(s, exc) == [s EXCEPT !.raised = exc]
\* input[start:current]: a slice stops at the end of the text.
Slice(input, start, current) ==
    SubSeq(input, start + 1, IF current > Len(input) THEN Len(input) ELSE current)

\* self.input[self.start : self.current]
Lexeme(s) == Slice(s.input, s.start, s.current)

\* The loop of indent() over the whitespace at the start of a line: the depth
\* and the position after it.
RECURSIVE SkipIndentation(_, _, _)
SkipIndentation(input, current, depth) ==
    IF current < Len(input) /\ WHITESPACE(input[current + 1]) # 0
    THEN SkipIndentation(input, current + 1, depth + WHITESPACE(input[current + 1]))
    ELSE [depth |-> depth, current |-> current]

\* The loop of indent() that pops the depths above `depth` without emitting a
\* token for them.
RECURSIVE Dedent_silent(_, _, _)
Dedent_silent(indent_stack, tokens, depth) ==
    IF indent_stack # <<>> /\ indent_stack[Len(indent_stack)] > depth
    THEN Dedent_silent(SubSeq(indent_stack, 1, Len(indent_stack) - 1), tokens, depth)
    ELSE [indent_stack |-> indent_stack, tokens |-> tokens]

\* while self.indent_stack and self.indent_stack[-1] > depth:
\*     self.add_token(TokenType.DEDENT, self.indent_stack.pop())
RECURSIVE Dedent(_, _, _)
Dedent(indent_stack, tokens, depth) ==
    IF indent_stack # <<>> /\ indent_stack[Len(indent_stack)] > depth
    THEN Dedent(SubSeq(indent_stack, 1, Len(indent_stack) - 1),
                Append(tokens, Token("DEDENT", indent_stack[Len(indent_stack)])), depth)
    ELSE [indent_stack |-> indent_stack, tokens |-> tokens]

\* The end of indent(): a depth that is not 0 and is above the top of the
\* stack (or the stack is empty) is pushed and an INDENT is emitted.
Indent(s, w, d) ==
    IF w.depth # 0 /\ (d.indent_stack = <<>> \/ w.depth > d.indent_stack[Len(d.indent_stack)])
    THEN [s EXCEPT !.current = w.current, !.start = w.current, !.start_of_line = FALSE,
                   !.indent_stack = Append(d.indent_stack, w.depth),
                   !.tokens = Append(d.tokens, Token("INDENT", w.depth))]
    ELSE [s EXCEPT !.current = w.current, !.start = w.current, !.start_of_line = FALSE,
                   !.indent_stack = d.indent_stack, !.tokens = d.tokens]

IndentTo(s, w) == Indent(s, w, Dedent(s.indent_stack, s.tokens, w.depth))

\* Scanner.indent: at the start of a line only.
indent(s) ==
    IF s.start_of_line THEN IndentTo(s, SkipIndentation(s.input, s.current, 0)) ELSE s

\* between(predicate=...): the position after the characters that pass.
RECURSIVE between_alnum(_, _)
between_alnum(input, current) ==
    IF current < Len(input) /\ (isalnum(input[current + 1]) \/ input[current + 1] = "_")
    THEN between_alnum(input, current + 1)
    ELSE current

RECURSIVE between_digits(_, _)
between_digits(input, current) ==
    IF current < Len(input) /\ (input[current + 1] \in Digit \/ input[current + 1] = "_")
    THEN between_digits(input, current + 1)
    ELSE current

RECURSIVE between_line(_, _)
between_line(input, current) ==
    IF current < Len(input) /\ input[current + 1] # "\n"
    THEN between_line(input, current + 1)
    ELSE current

\* The exponent of number(), which only a fraction is followed by: after "e"
\* or "E", a sign and the digits.
RECURSIVE between_isdigit(_, _)
between_isdigit(input, current) ==
    IF current < Len(input) /\ input[current + 1] \in Digit
    THEN between_isdigit(input, current + 1)
    ELSE current

Exponent(s) ==
    IF Matches(s, {"e", "E"})
    THEN [s EXCEPT !.current =
              between_isdigit(s.input, Scanner_match(Scanner_match(s, {"e", "E"}), {"+", "-"}).current)]
    ELSE s

\* The fraction of number(): `self.peek == "." and self.input[self.current + 1]
\* .isdigit()` reads past the end of the text when the dot is its last
\* character.
Fraction(s) ==
    IF Scanner_peek(s) # "." THEN s
    ELSE IF s.current + 2 > Len(s.input) THEN ScannerRaises(s, "IndexError")
    ELSE IF s.input[s.current + 2] \in Digit
         THEN Exponent([s EXCEPT !.current = between_digits(s.input, s.current + 1)])
    ELSE s

\* Decimal(num) of a text that number() scanned: accepted when it has digits
\* before the exponent mark and after it (underscores are dropped).
ValidDecimal(num) ==
    /\ num # <<>>
    /\ num[Len(num)] \in Digit \cup {"_"}
    /\ num[1] \in Digit \cup {"."}

\* Scanner.number: the scanner after the number; its text is the lexeme.
number(s) == Fraction([s EXCEPT !.current = between_digits(s.input, s.current)])

\* case digit: self.add_token(TokenType.NUM, self.number())
Number(n) ==
    IF n.raised # "" THEN n
    ELSE IF ValidDecimal(Lexeme(n)) THEN add_token(n, "NUM", Lexeme(n))
    ELSE ScannerRaises(n, "InvalidOperation")

\* Scanner.id without the quote: the identifier is a keyword, a unit or a
\* name.  (No text of the model holds a backslash, which would make it a path.)
Identifier(s, identifier) ==
    IF identifier \in KEYWORDS THEN add_token(s, TokenType(identifier), identifier)
    ELSE IF identifier \in Units THEN add_token(s, "UNIT", UnitNamed(identifier))
    ELSE add_token(s, "ID", identifier)

Identified(s) == Identifier(s, Lexeme(s))

id(s) == Identified([s EXCEPT !.current = between_alnum(s.input, s.current)])

\* Scanner.ps: a comment to the end of the line; it emits the SEP of the line
\* and steps over the newline.
ps(s) ==
    [add_token(s, "SEP", <<>>) EXCEPT !.current = between_line(s.input, s.current) + 1,
                                      !.start_of_line = TRUE]

\* Scanner.element_name: the capital and, if the table has it, the second
\* letter; the scanner after the name, unchanged when there is none.
ElementNamed(s, first, t) ==
    IF Matches(t, chem_start_letter(first)) \/ "" \in chem_start_letter(first)
    THEN Scanner_match(t, chem_start_letter(first))
    ELSE s

element_name(s) ==
    IF Matches(s, Upper) THEN ElementNamed(s, Scanner_peek(s), Scanner_advance(s)) ELSE s

\* Scanner.script without the "_" or "^" mark (no text of the model has one):
\* self.number() or default, then proceed().
Script(n) ==
    IF n.raised # "" THEN n
    ELSE IF Lexeme(n) # <<>> /\ ~ValidDecimal(Lexeme(n)) THEN ScannerRaises(n, "InvalidOperation")
    ELSE proceed(n)

script(s) == Script(number(proceed(s)))

\* Scanner.element after the name: the subscript, then the superscript.
Subscripted(s, name, sub) ==
    IF sub.raised # "" THEN [done |-> TRUE, s |-> sub, element |-> <<>>]
    ELSE [done |-> FALSE, s |-> script(sub),
          element |-> <<name, Slice(sub.input, s.current, sub.current)>>]

Element(s, n) ==
    IF n.current = s.current THEN [done |-> TRUE, s |-> s, element |-> <<>>]
    ELSE Subscripted(n, Slice(n.input, s.current, n.current), script(n))

\* Scanner._formula without sub-formulas (no capital of the texts is followed
\* by a parenthesis): the elements, as long as the next character begins one.
RECURSIVE Elements(_, _)
ElementsNext(s, elements, e) ==
    IF e.done THEN [s |-> e.s, elements |-> elements]
    ELSE IF e.s.raised # "" THEN [s |-> e.s, elements |-> Append(elements, e.element)]
    ELSE Elements(e.s, Append(elements, e.element))

Elements(s, elements) ==
    IF ~Scanner_end(s) /\ chem_start_letter(Scanner_peek(s)) # {}
    THEN ElementsNext(s, elements, Element(s, element_name(s)))
    ELSE [s |-> s, elements |-> elements]

\* case capital: the formula; a formula that stops before a letter, a digit or
\* an underscore is given up and the word is an identifier.
Formula(s, f) ==
    IF f.s.raised # "" THEN f.s
    ELSE IF isalnum(Scanner_peek(f.s)) \/ Scanner_peek(f.s) = "_"
    THEN id(s)
    ELSE add_token(f.s, "FORMULA", f.elements)

formula(s) == Formula(s, Elements(s, <<>>))

\* The rest of scan_token, after indent() and prev = self.advance().
ScanCharacter(s, prev) ==
    CASE prev \in {" ", "\t"} -> s
      [] prev \in {"(", ")", ","} -> add_token(s, TokenType(<<prev>>), <<>>)
      [] prev \in {"+", "!", "="} ->
           IF Matches(s, {"="})
           THEN add_token(Scanner_advance(s), TokenType(<<prev, "=">>), <<>>)
           ELSE add_token(s, TokenType(<<prev>>), <<>>)
      [] prev = "-" ->
           IF Matches(s, {">", "="})
           THEN add_token(Scanner_advance(s), TokenType(<<prev, Scanner_peek(s)>>), <<>>)
           ELSE add_token(s, "SUB", <<>>)
      [] prev = "\n" -> add_token([s EXCEPT !.start_of_line = TRUE], "SEP", <<>>)
      [] prev \in Digit -> Number(number(s))
      [] prev \in Upper -> formula([s EXCEPT !.current = @ - 1])
      [] prev = "p" -> IF Matches(s, {"s"}) THEN ps(Scanner_advance(s)) ELSE id(s)
      [] prev = "." ->
           IF Matches(s, {"."})
           THEN IF Matches(Scanner_advance(s), {"."})
                THEN add_token([s EXCEPT !.current = @ + 2], "INTERVAL", <<>>)
                ELSE Scanner_error(Scanner_advance(s), "Invalid character '.'")
           ELSE Scanner_error(s, "Invalid character '.'")
      [] OTHER ->
           IF isalpha(prev) THEN id(s) ELSE Scanner_error(s, "Invalid character")

Indented(s) == ScanCharacter(Scanner_advance(s), Scanner_peek(s))

\* Scanner.scan_token, and the `self.start = self.current` that follows it in
\* scan_tokens.
scan_token(s) == proceed(Indented(indent(s)))

\* The end of scan_tokens: the SEP that closes the last line (the stripped
\* text never ends in a newline; the empty text has no last character), a
\* DEDENT for each depth left on the stack, and EOF.
EndOfTokens(s, d) ==
    add_token([s EXCEPT !.indent_stack = d.indent_stack, !.tokens = d.tokens], "EOF", <<>>)

scan_tokens_end(s) ==
    IF s.input = <<>> THEN ScannerRaises(s, "IndexError")
    ELSE IF s.input[Len(s.input)] # "\n"
    THEN EndOfTokens(s, Dedent(s.indent_stack, Append(s.tokens, Token("SEP", <<>>)), 0))
    ELSE EndOfTokens(s, Dedent(s.indent_stack, s.tokens, 0))

\* Scanner.scan_tokens as a whole.
RECURSIVE scan_tokens(_)
scan_tokens(s) ==
    IF s.raised # "" THEN s
    ELSE IF Scanner_end(s) THEN scan_tokens_end(s)
    ELSE scan_tokens(scan_token(s))


(***************************************************************************)
(* The parser (ch_parser.py) on the tokens of the scanner.  A parser is    *)
(* its tokens, its position, the messages it has reported, and whether a   *)
(* CHError is on its way up; a nonterminal gives the parser after it and   *)
(* the node it returns.  The texts of the model hold no number, string,    *)
(* path, brace, colon, "*", "/", "%", "^", "<", ">", "&" or "|", so        *)
(* the branches of the grammar that begin with one are left out.           *)
(***************************************************************************)
Grouping(expr) == [k |-> "Grouping", expr |-> expr]
Conversion(value, unit) == [k |-> "Conversion", value |-> value, unit |-> unit]

Parser(tokens) == [tokens |-> tokens, current |-> 0, errors |-> <<>>, raised |-> FALSE]

R(p, node) == [p |-> p, node |-> node]

Parser_peek(p) == p.tokens[p.current + 1]
Parser_peek_next(p) ==
    IF p.current < Len(p.tokens) - 1 THEN p.tokens[p.current + 2] ELSE p.tokens[Len(p.tokens)]
Parser_end(p) == Parser_peek(p).type = "EOF"
\* Parser.advance; the token it returns is the one peek gave before it.
Parser_advance(p) == IF Parser_end(p) THEN p ELSE [p EXCEPT !.current = @ + 1]
\* handler.error(msg, token): the message is logged and the flag set; the
\* CHError it returns is raised by the caller, or dropped.
Parser_error(p, msg) == [p EXCEPT !.errors = Append(@, msg)]
Parser_raise(p, msg) == [p EXCEPT !.errors = Append(@, msg), !.raised = TRUE]

\* Parser.expect.  (A parser with a CHError on its way up runs no code: here
\* and below it is returned as it is.)
expect(p, msg, types) ==
    IF p.raised THEN p
    ELSE IF Parser_peek(p).type \notin types THEN Parser_raise(p, msg)
    ELSE Parser_advance(p)

sep(p) == expect(p, "Expect newline", {"SEP"})

opt_sep(p) ==
    IF p.raised THEN p
    ELSE IF Parser_peek(p).type = "SEP" THEN [p EXCEPT !.current = @ + 1]
    ELSE p

\* The operators of the levels of binary_parse, from or_expr (1) to term (5).
BinaryOperators(level) ==
    CASE level = 1 -> {"OR"}
      [] level = 2 -> {"AND"}
      [] level = 3 -> {"EQEQ", "NOEQ"}
      [] level = 4 -> {"LE", "GE", "LT", "GT"}
      [] level = 5 -> {"ADD", "SUB"}

\* Parser.assign: sugar.
sugar(op) == CASE op = "ADDEQ" -> "ADD" [] op = "SUBEQ" -> "SUB" [] OTHER -> op

RECURSIVE stmt(_)
RECURSIVE expr(_)
RECURSIVE Parser_assign(_)
RECURSIVE unary(_)
RECURSIVE binary_parse(_, _)
RECURSIVE BinaryLoop(_, _)
RECURSIVE CallLoop(_)
RECURSIVE CallArgs(_, _, _)
RECURSIVE FactorLoop(_)
RECURSIVE Conversions(_)
RECURSIVE BlockLoop(_, _)
RECURSIVE ParamsLoop(_, _)
RECURSIVE ExamBody(_, _)

\* case LPAREN of atom: expr = self.expr(); self.expect(RPAREN); Grouping(expr)
GroupingAfter(r) ==
    IF r.p.raised THEN r ELSE R(expect(r.p, "Expect ')'", {"RPAREN"}), Grouping(r.node))

\* Parser.atom: the token is taken whatever it is; a token that begins no
\* expression is reported and None is returned, without a raise.
atom(p) ==
    CASE Parser_peek(p).type = "NA" -> R(Parser_advance(p), Literal(NoneV))
      [] Parser_peek(p).type = "ID" -> R(Parser_advance(p), Variable(Parser_peek(p).val))
      [] Parser_peek(p).type = "PASS" -> R(Parser_advance(p), Literal(BoolV(TRUE)))
      [] Parser_peek(p).type = "FAIL" -> R(Parser_advance(p), Literal(BoolV(FALSE)))
      [] Parser_peek(p).type = "FORMULA" ->
           R(Parser_advance(p), [k |-> "Formula", elements |-> Parser_peek(p).val])
      [] Parser_peek(p).type = "LPAREN" -> GroupingAfter(expr(Parser_advance(p)))
      [] OTHER -> R(Parser_error(Parser_advance(p), "Expect expression."), NoneNode)

\* Parser.call: the arguments of each pair of parentheses after the callee.
CallArgs(callee, a, args) ==
    IF a.p.raised THEN a
    ELSE IF Parser_peek(a.p).type = "COMMA"
    THEN CallArgs(callee, expr(Parser_advance(a.p)), Append(args, a.node))
    ELSE CallLoop(R(expect(a.p, "Expect ')'", {"RPAREN"}), Call(callee, Append(args, a.node))))

CallLoop(r) ==
    IF r.p.raised \/ Parser_peek(r.p).type # "LPAREN" THEN r
    ELSE IF Parser_peek(Parser_advance(r.p)).type = "RPAREN"
    THEN CallLoop(R(Parser_advance(Parser_advance(r.p)), Call(r.node, <<>>)))
    ELSE CallArgs(r.node, expr(Parser_advance(r.p)), <<>>)

call(p) == CallLoop(atom(p))

\* Parser.exp without "^" and "**".
exp(p) == call(p)

\* Parser.unary: Unary(op.type, expr).
UnaryAfter(op, r) == IF r.p.raised THEN r ELSE R(r.p, Unary(op, r.node))

unary(p) ==
    IF Parser_peek(p).type \in {"ADD", "SUB", "INV", "NOT"}
    THEN UnaryAfter(Parser_peek(p).type, unary(Parser_advance(p)))
    ELSE exp(p)

\* while to := self.match(TokenType.TO): left = Conversion(left, to, unit, [])
ConversionTo(left, unit, p) ==
    IF p.raised THEN R(p, left) ELSE Conversions(R(p, Conversion(left, unit.val)))

Conversions(r) ==
    IF r.p.raised \/ Parser_peek(r.p).type # "TO" THEN r
    ELSE ConversionTo(r.node, Parser_peek_next(r.p),
                      expect(Parser_advance(r.p), "Expect unit or formula after '->'",
                             {"FORMULA", "UNIT"}))

\* Parser.factor: the loop after the first unary().
FactorLoop(r) ==
    IF r.p.raised THEN r
    ELSE IF Parser_peek(r.p).type = "TO" /\ Parser_peek_next(r.p).type # "PATH"
    THEN FactorLoop(Conversions(r))
    ELSE r

factor(p) == FactorLoop(unary(p))

\* Parser.binary_parse, the nonterminal being the next level or factor.
nonterminal(level, p) == IF level = 5 THEN factor(p) ELSE binary_parse(level + 1, p)

BinaryRight(level, left, op, r) ==
    IF r.p.raised THEN r ELSE BinaryLoop(level, R(r.p, Binary(left, op, r.node)))

BinaryLoop(level, r) ==
    IF r.p.raised \/ Parser_peek(r.p).type \notin BinaryOperators(level) THEN r
    ELSE BinaryRight(level, r.node, Parser_peek(r.p).type, nonterminal(level, Parser_advance(r.p)))

binary_parse(level, p) == BinaryLoop(level, nonterminal(level, p))

or_expr(p) == binary_parse(1, p)

\* Parser.assign: the right side is parsed before the left side is looked at.
Assigned(left, op, r) ==
    IF r.p.raised THEN r
    ELSE IF left.k # "Variable"
    THEN R(Parser_raise(r.p, "Invalid left-hand side of assignment"), NoneNode)
    ELSE IF op # "EQ" THEN R(r.p, CompoundAssign(left.name, sugar(op), r.node))
    ELSE R(r.p, Assign(left.name, r.node))

AssignAfter(l) ==
    IF l.p.raised \/ Parser_peek(l.p).type \notin {"ADDEQ", "SUBEQ", "EQ"} THEN l
    ELSE Assigned(l.node, Parser_peek(l.p).type, expr(Parser_advance(l.p)))

Parser_assign(p) == AssignAfter(or_expr(p))

\* Parser.interval.
IntervalEnd(start, e) == IF e.p.raised THEN e ELSE R(e.p, Interval(start, e.node))

IntervalAfter(s) ==
    IF s.p.raised \/ Parser_peek(s.p).type # "INTERVAL" THEN s
    ELSE IntervalEnd(s.node, Parser_assign(Parser_advance(s.p)))

interval(p) == IntervalAfter(Parser_assign(p))

\* Parser.write: no token of the model is a PATH, so a "->" left here raises.
WriteAfter(r) ==
    IF r.p.raised \/ Parser_peek(r.p).type # "TO" THEN r
    ELSE R(expect(Parser_advance(r.p), "Expect path", {"PATH"}), r.node)

expr(p) == WriteAfter(interval(p))

\* Parser.block.
BlockNext(r, stmts) == BlockLoop(r.p, Append(stmts, r.node))

BlockLoop(p, stmts) ==
    IF p.raised THEN R(p, NoneNode)
    ELSE IF Parser_peek(p).type = "DEDENT" THEN R(Parser_advance(p), Block(stmts))
    ELSE IF Parser_end(p) THEN R(p, Block(stmts))
    ELSE BlockNext(stmt(p), stmts)

block(p) == BlockLoop(expect(p, "Expect indent", {"INDENT"}), <<>>)

\* Parser.be: a block after a SEP, else an expression.
be(p) ==
    IF p.raised THEN R(p, NoneNode)
    ELSE IF Parser_peek(p).type = "SEP" THEN block(Parser_advance(p))
    ELSE expr(p)

\* Parser.expr_stmt.
ExprStmtAfter(r) == IF r.p.raised THEN r ELSE R(sep(r.p), ExprStmt(r.node))

expr_stmt(p) == ExprStmtAfter(expr(p))

\* Parser.submit.
SubmitAfter(r) == IF r.p.raised THEN r ELSE R(sep(r.p), Submit(r.node))

submit(p) ==
    IF Parser_peek(Parser_advance(p)).type # "SEP"
    THEN SubmitAfter(expr(Parser_advance(p)))
    ELSE SubmitAfter(R(Parser_advance(p), Literal(NoneV)))

\* Parser.params.
ParamsNext(p, names) ==
    ParamsLoop(opt_sep(expect(p, "Expect parameter", {"ID"})), Append(names, Parser_peek(p).val))

ParamsLoop(p, names) ==
    IF p.raised \/ Parser_peek(p).type # "COMMA" THEN [p |-> p, params |-> names]
    ELSE ParamsNext(opt_sep(Parser_advance(p)), names)

params(p) == ParamsLoop(expect(p, "Expect parameter", {"ID"}), <<Parser_peek(p).val>>)

\* Parser.work.
WorkEnd(identifier, names, b) ==
    IF b.p.raised THEN b ELSE R(opt_sep(b.p), Work(identifier, names, b.node))

WorkBody(identifier, named) ==
    WorkEnd(identifier, named.params, be(expect(named.p, "Expect ')'", {"RPAREN"})))

WorkParams(identifier, p) ==
    IF p.raised THEN R(p, NoneNode)
    ELSE IF Parser_peek(p).type = "ID" THEN WorkBody(identifier, params(p))
    ELSE WorkBody(identifier, [p |-> p, params |-> <<>>])

work(p) ==
    WorkParams(Parser_peek(Parser_advance(p)).val,
               expect(expect(Parser_advance(p), "Expect identifier", {"ID"}),
                      "Expect '('", {"LPAREN"}))

\* Parser.redo.
RedoEnd(identifier, range, b) ==
    IF b.p.raised THEN b ELSE R(opt_sep(b.p), Redo(identifier, range, b.node))

RedoBody(identifier, i) ==
    IF i.p.raised THEN i ELSE RedoEnd(identifier, i.node, be(i.p))

RedoInterval(identifier, p) ==
    IF p.raised THEN R(p, NoneNode) ELSE RedoBody(identifier, interval(p))

redo(p) ==
    RedoInterval(Parser_peek(Parser_advance(p)).val,
                 expect(expect(Parser_advance(p), "Expect identifier", {"ID"}),
                        "Expect 'of'", {"OF"}))

\* Parser.during.
DuringEnd(cond, b) == IF b.p.raised THEN b ELSE R(opt_sep(b.p), During(cond, b.node))

DuringBody(c) == IF c.p.raised THEN c ELSE DuringEnd(c.node, be(c.p))

during(p) == DuringBody(expr(Parser_advance(p)))

\* Parser.exam: the branches are collected and folded from the last one.
ExamEnd(p, makeups) == R(opt_sep(p), ExamFold(makeups, Len(makeups), NoneNode))

ExamFail(b, makeups) ==
    IF b.p.raised THEN b
    ELSE ExamEnd(b.p, Append(makeups, <<Literal(BoolV(TRUE)), b.node>>))

ExamMakeups(b, cond, makeups) ==
    IF b.p.raised THEN b
    ELSE IF Parser_peek(b.p).type = "MAKEUP"
    THEN ExamBody(expr(Parser_advance(b.p)), Append(makeups, <<cond, b.node>>))
    ELSE IF Parser_peek(b.p).type = "FAIL"
    THEN ExamFail(be(Parser_advance(b.p)), Append(makeups, <<cond, b.node>>))
    ELSE ExamEnd(b.p, Append(makeups, <<cond, b.node>>))

ExamBody(c, makeups) ==
    IF c.p.raised THEN c ELSE ExamMakeups(be(c.p), c.node, makeups)

exam(p) == ExamBody(expr(Parser_advance(p)), <<>>)

\* Parser.stmt: the case of SEP calls sep() and returns nothing.
stmt(p) ==
    CASE Parser_peek(p).type = "SEP" -> R(sep(p), NoneNode)
      [] Parser_peek(p).type = "EXAM" -> exam(p)
      [] Parser_peek(p).type = "REDO" -> redo(p)
      [] Parser_peek(p).type = "DURING" -> during(p)
      [] Parser_peek(p).type = "WORK" -> work(p)
      [] Parser_peek(p).type = "SUBMIT" -> submit(p)
      [] OTHER -> expr_stmt(p)

\* Parser.synchronize: match() takes the token that ends the skipping.
RECURSIVE synchronize(_)
synchronize(p) ==
    IF Parser_peek(p).type \in {"SEP", "EXAM", "DOC", "SUBMIT", "FAIL", "REDO", "DURING", "WORK"}
    THEN [p EXCEPT !.current = @ + 1]
    ELSE IF Parser_end(p) THEN p
    ELSE synchronize(Parser_advance(p))

\* One turn of the loop of Parser.parse: the statement is appended, or the
\* CHError is caught and the parser synchronizes.
ParsedStmt(loop, r) ==
    IF r.p.raised
    THEN [p |-> synchronize([r.p EXCEPT !.raised = FALSE]), stmts |-> loop.stmts]
    ELSE [p |-> r.p, stmts |-> Append(loop.stmts, r.node)]

\* Parser.parse as a whole, on the parser and the statements so far.
RECURSIVE parse_loop(_)
parse_loop(loop) ==
    IF Parser_end(loop.p) THEN loop ELSE parse_loop(ParsedStmt(loop, stmt(loop.p)))

\* parse(tokens) of ch_parser.py.
parse(tokens) == parse_loop([p |-> Parser(tokens), stmts |-> <<>>])

(***************************************************************************)
(* The string form of the nodes (ch_ast.py): the text, character by        *)
(* character.                                                              *)
(***************************************************************************)
\* str(op) of a member of TokenType: its qualified name.
TokenType__str__(op) ==
    CASE op = "ADD" -> <<"T", "o", "k", "e", "n", "T", "y", "p", "e", ".", "A", "D", "D">>
      [] op = "SUB" -> <<"T", "o", "k", "e", "n", "T", "y", "p", "e", ".", "S", "U", "B">>
      [] op = "NOT" -> <<"T", "o", "k", "e", "n", "T", "y", "p", "e", ".", "N", "O", "T">>

\* op.value of a member of TokenType.
TokenType_value(op) ==
    CASE op = "ADD" -> <<"+">>
      [] op = "SUB" -> <<"-">>
      [] op = "EQEQ" -> <<"=", "=">>
      [] op = "NOEQ" -> <<"!", "=">>

\* separator.join(texts)
RECURSIVE join(_, _)
join(separator, texts) ==
    IF texts = <<>> THEN <<>>
    ELSE IF Len(texts) = 1 THEN texts[1]
    ELSE texts[1] \o separator \o join(separator, Tail(texts))

RECURSIVE Str(_)
\* Block.__str__: each statement after four spaces, whatever the block is in.
Block__str__(node) ==
    <<"\n">> \o join(<<"\n">>, [i \in 1..Len(node.body) |-> <<" ", " ", " ", " ">> \o Str(node.body[i])]) \o <<"\n">>

\* Exam.__str__: a makeup and a fail branch are both written after " fail ".
Exam__str__(node) ==
    <<"e", "x", "a", "m", " ">> \o Str(node.cond) \o <<" ">> \o Str(node.pass_stmt)
        \o (IF node.fail_stmt.k # "None" THEN <<" ", "f", "a", "i", "l", " ">> \o Str(node.fail_stmt) ELSE <<>>)

\* Literal.__str__: str(True), str(False), str(None).
Literal__str__(node) ==
    IF node.value.t = "None" THEN <<"N", "o", "n", "e">>
    ELSE IF node.value.b THEN <<"T", "r", "u", "e">>
    ELSE <<"F", "a", "l", "s", "e">>

\* Unary.__str__: f"{self.op}{self.right}", op being a TokenType.
Unary__str__(node) == TokenType__str__(node.op) \o Str(node.right)

Str(node) ==
    CASE node.k = "None" -> <<"N", "o", "n", "e">>
      [] node.k = "Literal" -> Literal__str__(node)
      [] node.k = "Variable" -> node.name
      [] node.k = "Assign" -> node.name \o <<" ", "=", " ">> \o Str(node.val)
      [] node.k = "Binary" ->
           Str(node.left) \o <<" ">> \o TokenType_value(node.op) \o <<" ">> \o Str(node.right)
      [] node.k = "Unary" -> Unary__str__(node)
      [] node.k = "Grouping" -> <<"(">> \o Str(node.expr) \o <<")">>
      [] node.k = "Conversion" -> Str(node.value) \o <<" ", "-", ">", " ">> \o node.unit
      [] node.k = "Call" ->
           Str(node.callee) \o <<"(">>
               \o join(<<",", " ">>, [i \in 1..Len(node.args) |-> Str(node.args[i])]) \o <<")">>
      [] node.k = "Interval" -> Str(node.start) \o <<" ", ".", ".", ".", " ">> \o Str(node.end)
      [] node.k = "Block" -> Block__str__(node)
      [] node.k = "Exam" -> Exam__str__(node)
      [] node.k = "During" -> <<"d", "u", "r", "i", "n", "g", " ">> \o Str(node.cond) \o <<" ">> \o Str(node.body)
      [] node.k = "Work" ->
           <<"w", "o", "r", "k", " ">> \o node.identifier \o <<"(">> \o join(<<",", " ">>, node.params)
               \o <<")", " ">> \o Str(node.body)
      [] node.k = "Submit" -> <<"s", "u", "b", "m", "i", "t", " ">> \o Str(node.expr)
      [] node.k = "ExprStmt" -> Str(node.expr)
      [] node.k = "Redo" ->
           <<"r", "e", "d", "o", " ">> \o node.identifier \o <<" ", "o", "f", " ">> \o Str(node.interval)
               \o <<" ">> \o Str(node.body)

(***************************************************************************)
(* The scanner run on a text, one call of scan_token at a time.            *)
(***************************************************************************)
\* handler.error sets the flag: the scanner has logged a message in the step.
Reported(before, after) == Len(after.errors) > Len(before.errors)

FrontUnchanged == UNCHANGED <<prog, ctrl, kont, heap, works, env, out, steps,
                              phase, pending, results, calc>>

\* while not self.end: self.scan_token(); self.start = self.current
Scanner_scan_token ==
    /\ front.at = "scan"
    /\ front.scanner.raised = ""
    /\ ~Scanner_end(front.scanner)
    /\ front' = [front EXCEPT !.scanner = scan_token(@)]
    /\ had_error' = (had_error \/ Reported(front.scanner, front'.scanner))
    /\ FrontUnchanged

\* The rest of scan_tokens: the tokens are returned.
Scanner_scan_tokens ==
    /\ front.at = "scan"
    /\ front.scanner.raised = ""
    /\ Scanner_end(front.scanner)
    /\ front' = [front EXCEPT !.at = "scanned", !.scanner = scan_tokens_end(@)]
    /\ UNCHANGED had_error
    /\ FrontUnchanged

\* The texts of the scanner specification: lines of one-letter names with
\* spaces, tabs and newlines anywhere.
Characters == {"x", " ", "\t", "\n"}

ScannerInit ==
    /\ AtRest
    /\ calc = NoCalc
    /\ \E text \in SeqsUpTo(Characters, MaxText) :
           front = [at |-> "scan", scanner |-> Scanner(<<"x">> \o text)]

ScannerNext == Scanner_scan_token \/ Scanner_scan_tokens

ScannerSpec == ScannerInit /\ [][ScannerNext]_vars

(***************************************************************************)
(* CH.eval on a source text (main.py): the scanner, the gate on the error  *)
(* flag, the parser, the gate again, and the interpreter.  The string form *)
(* of the tree that reached the interpreter is then put through the same   *)
(* steps a second time.                                                    *)
(***************************************************************************)
MaxLines == 2

\* The statements the source texts are made of, one after the other:
\*   'foo'                                         a name
\*   'foo = -baz'                                  an assignment of a negation
\*   'foo = baz +'                                 a sum without its right side
\*   'foo = )'                                     an assignment of nothing
\*   'exam pass\n    foo\nfail\n    baz'           an exam with a fail branch, both in blocks
\*   'foo baz'                                     two names on a line
\*   'foo = $'                                     a character the scanner knows nothing of
\*   'work f(a)\n    foo baz\n    submit a'        a work with two names on the first line of its block
\*   'foo -> g'                                    a conversion to gram
Statements ==
    {<<"f", "o", "o">>,
     <<"f", "o", "o", " ", "=", " ", "-", "b", "a", "z">>,
     <<"f", "o", "o", " ", "=", " ", "b", "a", "z", " ", "+">>,
     <<"f", "o", "o", " ", "=", " ", ")">>,
     <<"e", "x", "a", "m", " ", "p", "a", "s", "s", "\n", " ", " ", " ", " ", "f", "o", "o", "\n", "f", "a", "i", "l", "\n", " ", " ", " ", " ", "b", "a", "z">>,
     <<"f", "o", "o", " ", "b", "a", "z">>,
     <<"f", "o", "o", " ", "=", " ", "$">>,
     <<"w", "o", "r", "k", " ", "f", "(", "a", ")", "\n", " ", " ", " ", " ", "f", "o", "o", " ", "b", "a", "z", "\n", " ", " ", " ", " ", "s", "u", "b", "m", "i", "t", " ", "a">>,
     <<"f", "o", "o", " ", "-", ">", " ", "g">>}

Sources == SeqsUpTo(Statements, MaxLines) \ {<<>>}

\* The program text of the statements.
Code(lines) == join(<<"\n">>, lines)

\* `if handler.had_error: handler.had_error = False; return ""`: where CH.eval
\* goes from a gate with the flag as it is.
Gated_open(flag, next) == next
Gated(flag, next) == IF flag THEN "returned" ELSE next

FrontInit ==
    /\ AtRest
    /\ calc = NoCalc
    /\ \E lines \in Sources :
           front = [at |-> "scan", scanner |-> Scanner(Code(lines)), parser |-> Parser(<<>>),
                    stmts |-> <<>>, ast |-> NoneNode, pass |-> 1, first |-> NoneNode,
                    source |-> lines]

\* tokens = scanner.scan_tokens(); if handler.had_error: ...; parser = Parser(tokens)
CH_eval_scanned ==
    /\ front.at = "scanned"
    /\ front.scanner.raised = ""
    /\ front' = [front EXCEPT !.at = Gated(had_error, "parse"),
                              !.parser = Parser(front.scanner.tokens),
                              !.stmts = <<>>]
    /\ had_error' = (had_error /\ front'.at # "returned")
    /\ FrontUnchanged

\* A turn of the loop of Parser.parse in which stmt() returns.
Parser_parse_stmt ==
    /\ front.at = "parse"
    /\ ~Parser_end(front.parser)
    /\ ~stmt(front.parser).p.raised
    /\ front' = [front EXCEPT !.parser = stmt(front.parser).p,
                              !.stmts = Append(@, stmt(front.parser).node)]
    /\ had_error' = (had_error \/ Reported(front.parser, front'.parser))
    /\ FrontUnchanged

\* A turn of the loop of Parser.parse in which stmt() raises: except CHError:
\* self.synchronize().
Parser_parse_synchronize ==
    /\ front.at = "parse"
    /\ ~Parser_end(front.parser)
    /\ stmt(front.parser).p.raised
    /\ front' = [front EXCEPT !.parser = ParsedStmt([p |-> front.parser, stmts |-> front.stmts],
                                                    stmt(front.parser)).p]
    /\ had_error' = (had_error \/ Reported(front.parser, front'.parser))
    /\ FrontUnchanged

\* return Block(tuple(stmts))
Parser_parse_return ==
    /\ front.at = "parse"
    /\ Parser_end(front.parser)
    /\ front' = [front EXCEPT !.at = "parsed", !.ast = Block(front.stmts)]
    /\ UNCHANGED had_error
    /\ FrontUnchanged

\* ast = parser.parse(); if handler.had_error: ...; return
\* self.interpreter.evaluate(ast)
CH_eval_parsed ==
    /\ front.at = "parsed"
    /\ front' = [front EXCEPT !.at = Gated(had_error, "evaluate")]
    /\ had_error' = (had_error /\ front'.at # "returned")
    /\ FrontUnchanged

\* str(ast) of the tree that reached the interpreter is the text of a second
\* call.
CH_eval_str ==
    /\ front.at = "evaluate"
    /\ front.pass = 1
    /\ front' = [front EXCEPT !.at = "scan", !.scanner = Scanner(Str(front.ast)),
                              !.parser = Parser(<<>>), !.stmts = <<>>, !.ast = NoneNode,
                              !.pass = 2, !.first = front.ast]
    /\ UNCHANGED had_error
    /\ FrontUnchanged

FrontNext ==
    \/ Scanner_scan_token
    \/ Scanner_scan_tokens
    \/ CH_eval_scanned
    \/ Parser_parse_stmt
    \/ Parser_parse_synchronize
    \/ Parser_parse_return
    \/ CH_eval_parsed
    \/ CH_eval_str

FrontSpec == FrontInit /\ [][FrontNext]_vars

\* The evaluation of the program is over: with a value, or with an exception
\* that no frame caught.
Finished == kont = <<>> /\ ctrl.m # "eval"
Returned == kont = <<>> /\ ctrl.m = "ret"
Uncaught == kont = <<>> /\ ctrl.m = "raise"

\* What print was handed, as numbers (each value printed is a CHQuantity).
Printed == [i \in 1..Len(out) |-> out[i].value]

(***************************************************************************)
(* Properties.                                                             *)
(***************************************************************************)
IsNumber(v, n) == v.t = "CHQuantity" /\ v.value = n

\* The values printed so far are the numbers of a prefix of `expected`.
PrintedPrefixOf(expected) ==
    /\ Len(out) <= Len(expected)
    /\ \A k \in 1..Len(out) : IsNumber(out[k], expected[k])

\* The bindings of a scope that are not those of init_global_env.
UserNames(p) == DOMAIN heap[p].vars \ DOMAIN init_global_env.vars

\* C1: the k-th invocation of the work returned by counter() prints k-1: the
\* values printed by the closure program are 0, 1, 2, ... in this order, one
\* per invocation, and the program ends normally after `calls` of them.
C1_ClosureKeepsState ==
    prog.name = "closure" =>
        /\ PrintedPrefixOf([k \in 1..prog.calls |-> k - 1])
        /\ Finished => Returned /\ Len(out) = prog.calls

C1_Witness ==
    /\ prog.name = "closure" /\ prog.calls >= 2
    /\ Returned
    /\ Len(out) = prog.calls

\* C2: an assignment made inside a nested scope (an exam branch, a during
\* body, a work body) to a name bound in the enclosing scope is what a lookup
\* in the enclosing scope returns after the nested scope has exited: the
\* scope program, which sets x = 2 in the nested scope, prints 2.
C2_NestedAssignPropagates ==
    (prog.name = "scope" /\ Finished) =>
        /\ Returned
        /\ Len(out) = 1 /\ IsNumber(out[1], 2)
        /\ IsNumber(lookup(heap, env, "x").val, 2)

\* C3: a work whose closure was formed before an assignment to a name it
\* reads observes the assigned value on its next invocation, whichever scope
\* assigns (the global scope, the declaring scope, another work): the update
\* program, which sets x = 2 after declaring f, has f print 2.
C3_ClosureObservesAssign ==
    (prog.name = "update" /\ Finished) =>
        /\ Returned
        /\ Len(out) = 1 /\ IsNumber(out[1], 2)

\* C4: a submit under any nest of exam, during and redo blocks ends exactly
\* the innermost call: the call yields the submitted value, no later
\* statement of the body runs (99 and 98 are never printed), and the caller,
\* also an outer invocation of the same work, goes on after the call (the
\* submit program prints 1, then 10, then 7 and ends normally).
C4_SubmitEndsInnermostCall ==
    prog.name = "submit" =>
        /\ PrintedPrefixOf(<<1, 10, 7>>)
        /\ Finished => Returned /\ Len(out) = 3

C4_Witness ==
    /\ prog.name = "submit"
    /\ Len(prog.shape) = 2 /\ prog.shape[1] = "during" /\ prog.shape[2] = "redo"
    /\ Returned
    /\ Len(out) = 3

\* The names a program binds at the top level.
TopLevelNames(p) ==
    CASE p.name = "sum" -> {"sum"}
      [] p.name = "closure" -> {"counter", "i"}
      [] p.name = "exam" -> {CondNames[i] : i \in 1..Len(p.conds)} \cup {"t"}

\* C5: each invocation has its own parameter bindings and a finished call,
\* ended by a submit (sum, counter, the conditions) or by the end of its body
\* (impl, t), leaves the caller's environment as it was: sum(n) yields
\* n(n+1)/2, and after the last call the interpreter is in the global scope,
\* whose bindings besides the natives are the top-level names of the program.
C5_RecursionRestoresCaller ==
    (prog.name \in {"sum", "closure", "exam"} /\ Finished) =>
        /\ Returned
        /\ heap[env].parent = 0
        /\ UserNames(env) = TopLevelNames(prog)
        /\ prog.name = "sum" =>
             Len(out) = 1 /\ IsNumber(out[1], (prog.n * (prog.n + 1)) \div 2)

C5_Witness ==
    /\ prog.name = "sum" /\ prog.n >= 3
    /\ Returned
    /\ Len(out) = 1

\* C6: the conditions of an exam chain are evaluated in source order up to
\* the first truthy one, exactly the body of that condition runs; with no
\* truthy condition the fail body runs when there is one, and else no body
\* runs and the value is null.  Condition i prints 10+i, body i prints i and
\* has the value i, the fail body prints 0 and has the value 0.
FirstTruthy(conds) ==
    IF \E i \in 1..Len(conds) : conds[i]
    THEN CHOOSE i \in 1..Len(conds) : conds[i] /\ \A j \in 1..(i - 1) : ~conds[j]
    ELSE 0

ExamMarks(conds, hasFail) ==
    LET first == FirstTruthy(conds)
        evaluated == IF first = 0 THEN Len(conds) ELSE first
        marks == [i \in 1..evaluated |-> 10 + i]
    IN  IF first # 0 THEN Append(marks, first)
        ELSE IF hasFail THEN Append(marks, 0)
        ELSE marks

C6_ExamChainOrder ==
    prog.name = "exam" =>
        /\ PrintedPrefixOf(ExamMarks(prog.conds, prog.hasFail))
        /\ Finished =>
             /\ Returned
             /\ Len(out) = Len(ExamMarks(prog.conds, prog.hasFail))
             /\ IF FirstTruthy(prog.conds) = 0 /\ ~prog.hasFail
                THEN ctrl.val = NoneV
                ELSE IsNumber(ctrl.val, FirstTruthy(prog.conds))

C6_Witness ==
    /\ prog.name = "exam"
    /\ Len(prog.conds) = 3 /\ ~prog.conds[1] /\ prog.conds[2] /\ prog.conds[3]
    /\ Returned
    /\ Len(out) = 3

\* C7: a during loop runs its body once per truthy evaluation of its
\* condition, sees the body's assignments when it re-evaluates the condition,
\* ends at the first falsy condition and returns the body values in order:
\* with i = n, condition i >= 0 and body print(i); i -= 1 the body runs
\* exactly n+1 times (printing n, ..., 0) and the value is [n-1, ..., -1].
C7_DuringRunsNPlusOne ==
    prog.name = "during" =>
        /\ PrintedPrefixOf([k \in 1..(prog.n + 1) |-> prog.n - k + 1])
        /\ Finished =>
             /\ Returned
             /\ Len(out) = prog.n + 1
             /\ ctrl.val.t = "list"
             /\ Len(ctrl.val.items) = prog.n + 1
             /\ \A k \in 1..(prog.n + 1) : IsNumber(ctrl.val.items[k], prog.n - k)

C7_Witness ==
    /\ prog.name = "during" /\ prog.n >= 2
    /\ Returned
    /\ Len(out) = prog.n + 1

\* C8: a redo over a ... b runs its body once for each integer from a
\* inclusive to b exclusive, in increasing order, with the loop name bound to
\* it, and its value is the list of the body values: the redo program
\* prints a, ..., b-1 and ends normally with a list of b-a values.
C8_RedoIteratesInterval ==
    (prog.name = "redo" /\ Finished) =>
        /\ Returned
        /\ Len(out) = (IF prog.b > prog.a THEN prog.b - prog.a ELSE 0)
        /\ \A k \in 1..Len(out) : IsNumber(out[k], prog.a + k - 1)
        /\ ctrl.val.t = "list" /\ Len(ctrl.val.items) = Len(out)

\* C9: null, false and a Quantity of magnitude zero are falsy, every other
\* Quantity is truthy: as an exam condition a falsy value selects the fail
\* branch (null when there is none), as a during condition it ends the loop,
\* and `!` of it is true.
Falsy(v) == v = NoneV \/ v = BoolV(FALSE) \/ (v.t = "CHQuantity" /\ v.value = 0)

C9_ZeroQuantityFalsy ==
    (prog.name = "truthy" /\ Finished) =>
        /\ Returned
        /\ Len(out) = 1
        /\ (CASE prog.use = "exam" -> IsNumber(out[1], IF Falsy(prog.v) THEN 0 ELSE 1)
              [] prog.use = "exam_nofail" ->
                   IF Falsy(prog.v) THEN out[1] = NoneV ELSE IsNumber(out[1], 1)
              [] prog.use = "during" -> IsNumber(out[1], IF Falsy(prog.v) THEN 0 ELSE 1)
              [] prog.use = "not" -> out[1] = BoolV(Falsy(prog.v)))

\* C10: a() && b() yields the value of a() without evaluating b() when a() is
\* falsy and else the value of b(); a() || b() yields the value of a() without
\* evaluating b() when a() is truthy and else the value of b().  a() prints 1,
\* b() prints 2, and the value of the expression is printed last.
C10_ShortCircuit ==
    (prog.name = "logic" /\ Finished) =>
        /\ Returned
        /\ LET skips == IF prog.op = "AND" THEN Falsy(prog.a) ELSE ~Falsy(prog.a)
           IN  IF skips
               THEN Len(out) = 2 /\ IsNumber(out[1], 1) /\ out[2] = prog.a
               ELSE Len(out) = 3 /\ IsNumber(out[1], 1) /\ IsNumber(out[2], 2)
                    /\ out[3] = prog.b

\* C11: a call whose argument count differs from the callee's arity (a user
\* work's parameter count, a native work's declared arity), or whose callee is
\* not callable, raises an evaluation error before any argument expression is
\* evaluated and without running the callee's body: the call-error program
\* prints nothing (no mark of an argument, of the body or of a later
\* statement) and ends with an uncaught CHError, the handler's flag set.
C11_CallErrorBeforeArguments ==
    prog.name = "call_error" =>
        /\ out = <<>>
        /\ Finished => Uncaught /\ ctrl.exc = "CHError" /\ had_error

C11_Witness ==
    /\ prog.name = "call_error" /\ prog.kind = "many"
    /\ Uncaught /\ ctrl.exc = "CHError"
    /\ Len(works) = 2

\* C12: every submit that is executed is caught by an enclosing call, so no
\* SubmitError leaves the top-level evaluation, also for a submit placed
\* outside any work body.
C12_SubmitNeverEscapes ==
    ~(Uncaught /\ ctrl.exc = "SubmitError")

Trail == {calc.trail[k] : k \in DOMAIN calc.trail}

\* The number of significant digits of a non-negative value written with p
\* decimals: the digits from the first non-zero one to the last decimal; of a
\* value written without decimals, to its last non-zero digit; none if the
\* value rounds to zero.
DigitsAtPlaces(d, p) ==
    LET r == RoundHalfUp(Abs(d.coef), -d.exp - p)
    IN  IF r = 0 THEN 0
        ELSE IF p = 0 THEN NumDigits(StripZeros(r))
        ELSE NumDigits(r)

C15_AddSubExactAndCounted ==
    \A t \in Trail :
        t.op \in {"add", "sub"} =>
            /\ ~t.outcome.raised
            /\ Value(t.outcome.val) =
                   (IF t.op = "add"
                    THEN Decimal_add(Value(t.left), Value(t.right))
                    ELSE Decimal_sub(Value(t.left), Value(t.right)))
            /\ t.outcome.val.sig_fig =
                   DigitsAtPlaces(Value(t.outcome.val),
                                  Min(_get_decimal_places(t.left),
                                      _get_decimal_places(t.right)))
            /\ t.outcome.val.sig_fig = 0 =>
                   SignificantDigits__str__(t.outcome.val).text = "NA"

\* C16: the sig-fig count of a * b and of a / b is the smaller of the counts
\* the operands carry, whether parsed from a literal, given explicitly or
\* produced by an earlier operation (so (a * b) * c has the least of three).
C16_MulDivSigFigIsMin ==
    \A t \in Trail :
        t.op \in {"mul", "truediv"} /\ ~t.outcome.raised =>
            t.outcome.val.sig_fig = Min(t.left.sig_fig, t.right.sig_fig)

\* The two operands carry a formula unit that is not empty.
BothWithFormula(t) ==
    FormulaUnit__bool__(t.left.formula) /\ FormulaUnit__bool__(t.right.formula)

\* C17: a + b, a - b and a % b of two Quantities whose formula units are not
\* empty raise a CHError and give no result when the formula units differ,
\* and give a result that carries the operands' formula unit when they are
\* equal.
C17_SameFormulaOrError ==
    \A t \in Trail :
        t.op \in {"add", "sub", "mod"} /\ BothWithFormula(t) =>
            IF t.left.formula # t.right.formula
            THEN t.outcome.raised /\ t.outcome.exc = "CHError"
            ELSE ~t.outcome.raised /\ t.outcome.val.formula = t.left.formula

\* Every formula of v occurs in u, counted with its multiplicity.
Occurs(x, list) == Cardinality({i \in DOMAIN list : list[i] = x})
ContainsAll(u, v) == \A i \in DOMAIN v : Occurs(v[i], v) <= Occurs(v[i], u)

\* C18: for Quantities a and b whose formula units are not empty, equal or
\* different, a * b gives a result whose formula unit is a's formulas followed
\* by b's; a / b gives a result whose formula unit is a's formulas without
\* those of b, and is an error only if a formula of b is missing from a; q / q
\* is formulaless and dimensionless.
C18_ProductConcatenatesQuotientRemoves ==
    \A t \in Trail :
        BothWithFormula(t) =>
            /\ t.op = "mul" =>
                   /\ ~t.outcome.raised
                   /\ t.outcome.val.formula =
                          FormulaUnit(t.left.formula.formulas \o t.right.formula.formulas)
            /\ t.op = "truediv" =>
                   IF ContainsAll(t.left.formula.formulas, t.right.formula.formulas)
                   THEN /\ ~t.outcome.raised
                        /\ t.outcome.val.formula =
                               RemoveAll(t.left.formula.formulas,
                                         t.right.formula.formulas).val
                        /\ t.left = t.right =>
                               /\ t.outcome.val.formula = formulaless
                               /\ t.outcome.val.unit = dimensionless
                   ELSE t.outcome.raised

\* C19: when exactly one operand of a + b is null or formulaless and the other
\* has the formula unit F, the sum is a Quantity with the formula unit F,
\* whichever side the formulaless operand is on.
C19_FormulalessAdoptsFormula ==
    \A t \in Trail :
        t.op = "add" =>
            /\ (IsFormulaless(t.left.formula) /\ FormulaUnit__bool__(t.right.formula)) =>
                   ~t.outcome.raised /\ t.outcome.val.formula = t.right.formula
            /\ (FormulaUnit__bool__(t.left.formula) /\ IsFormulaless(t.right.formula)) =>
                   ~t.outcome.raised /\ t.outcome.val.formula = t.left.formula

\* C20: raising a Quantity to an exponent that carries a unit, or whose
\* magnitude is not an integer (2.5), is an evaluation error, reported through
\* the error handler as a CHError, and gives no result.
C20_PowRefusesUnitOrFraction ==
    \A t \in Trail :
        (/\ t.op = "pow"
         /\ \/ t.right.unit # dimensionless
            \/ t.right.magnitude.exp < 0) =>
            t.outcome.raised /\ t.outcome.exc = "CHError" /\ had_error

\* C25: Env objects are immutable: no step changes the variable map or the
\* parent reference of an Env object that exists before it.
C25_EnvObjectsNeverChange ==
    [][\A i \in 1..Len(heap) : i <= Len(heap') /\ heap'[i] = heap[i]]_vars

\* C27: when an evaluation error has reached the top level, the current
\* environment is the one the top-level statement started in.  The top-level
\* environment has no parent, and every scope the interpreter opens has one.
C27_ErrorRestoresEnvironment ==
    (Uncaught /\ ctrl.exc = "CHError") => heap[env].parent = 0

\* C30: a name that is first bound in the declaring scope after a work was
\* declared is not visible from the body of the work: the call ends in the
\* error "Variable not found" and nothing is printed, neither by the body nor
\* by the statement after the call.  A name bound before the declaration is
\* visible.
C30_LaterBindingNotInClosure ==
    (prog.name = "late" /\ Finished) =>
        IF prog.kind = "before"
        THEN Returned /\ IsNumber(out[1], 3) /\ Len(out) = 2
        ELSE Uncaught /\ ctrl.exc = "CHError" /\ out = <<>>

\* The call of the earlier work has failed while the later name is bound in
\* the environment of the caller.
C30_Witness ==
    /\ prog.name = "late" /\ prog.kind \in {"variable", "work"}
    /\ Uncaught
    /\ lookup(heap, works[1].closure, "f").found
    /\ \E n \in {"y", "g"} :
          /\ ~lookup(heap, works[1].closure, n).found
          /\ \E e \in 1..Len(heap) : heap[e].parent = 0 /\ n \in DOMAIN heap[e].vars


\* A plain number: a Quantity with no formula and no unit.
PlainNumber(q) == IsFormulaless(q.formula) /\ q.unit = dimensionless

\* C29: multiplying or dividing a Quantity of unit U by a plain dimensionless
\* number leaves the unit unchanged: q * n, n * q and q / n give a result of
\* unit U.
C29_ScalingKeepsUnit ==
    \A t \in Trail :
        /\ (t.op \in {"mul", "truediv"} /\ PlainNumber(t.right)) =>
               ~t.outcome.raised /\ t.outcome.val.unit = t.left.unit
        /\ (t.op = "mul" /\ PlainNumber(t.left)) =>
               ~t.outcome.raised /\ t.outcome.val.unit = t.right.unit

(***************************************************************************)
(* The scanner's indentation (ScannerSpec).                                *)
(***************************************************************************)
\* The number of tokens of a type in a token stream.
RECURSIVE CountTokens(_, _)
CountTokens(tokens, type) ==
    IF tokens = <<>> THEN 0
    ELSE CountTokens(Tail(tokens), type) + (IF Head(tokens).type = type THEN 1 ELSE 0)

\* The stack of depths a token stream describes: an INDENT pushes its depth, a
\* DEDENT pops the depth it names; <<-1>> when a DEDENT finds no such depth
\* on top.
RECURSIVE DepthsOf(_, _)
DepthsOf(tokens, stack) ==
    IF tokens = <<>> THEN stack
    ELSE IF Head(tokens).type = "INDENT" THEN DepthsOf(Tail(tokens), Append(stack, Head(tokens).val))
    ELSE IF Head(tokens).type = "DEDENT"
         THEN IF stack # <<>> /\ stack[Len(stack)] = Head(tokens).val
              THEN DepthsOf(Tail(tokens), SubSeq(stack, 1, Len(stack) - 1))
              ELSE <<-1>>
    ELSE DepthsOf(Tail(tokens), stack)

\* C23: in every prefix of the token stream the DEDENT tokens are no more than
\* the INDENT tokens; the INDENT and DEDENT tokens emitted so far are exactly the
\* pushes and pops that made the indentation stack; and when EOF is emitted
\* there are as many DEDENT tokens as INDENT tokens.
C23_IndentsAndDedentsBalance ==
    front.at \in {"scan", "scanned"} =>
        /\ \A k \in 1..Len(front.scanner.tokens) :
               CountTokens(SubSeq(front.scanner.tokens, 1, k), "DEDENT")
                   <= CountTokens(SubSeq(front.scanner.tokens, 1, k), "INDENT")
        /\ DepthsOf(front.scanner.tokens, <<>>) = front.scanner.indent_stack
        /\ (front.at = "scanned" /\ front.scanner.raised = "") =>
               /\ front.scanner.tokens[Len(front.scanner.tokens)].type = "EOF"
               /\ CountTokens(front.scanner.tokens, "DEDENT")
                      = CountTokens(front.scanner.tokens, "INDENT")

\* A text with a block inside a block has been scanned to EOF: the second
\* INDENT was pushed over the first, and both depths were popped at the end.
C23_Witness ==
    /\ front.at = "scanned"
    /\ front.scanner.raised = ""
    /\ \E i \in 1..Len(front.scanner.tokens) :
           /\ front.scanner.tokens[i].type = "INDENT"
           /\ \E j \in (i + 1)..Len(front.scanner.tokens) :
                  /\ front.scanner.tokens[j].type = "INDENT"
                  /\ \A k \in i..j : front.scanner.tokens[k].type # "DEDENT"
    /\ front.scanner.tokens[Len(front.scanner.tokens) - 1].type = "DEDENT"
    /\ front.scanner.tokens[Len(front.scanner.tokens) - 2].type = "DEDENT"

(***************************************************************************)
(* The scanner, the parser and the gates between them (FrontSpec).         *)
(***************************************************************************)
\* The second call, on the string form of the first tree, is over: it
\* returned "", it raised in the scanner, or its tree reached the interpreter.
Reparsed ==
    /\ front.pass = 2
    /\ \/ front.at \in {"returned", "evaluate"}
       \/ front.at = "scanned" /\ front.scanner.raised # ""

\* C24: the string form of the tree of a source without errors scans and
\* parses, without errors, to the same tree.
C24_StringFormParsesToSameTree ==
    Reparsed => front.at = "evaluate" /\ front.ast = front.first

\* A statement that scans and parses without a report when it is the whole
\* source.
ParsesClean(s) == s.raised = "" /\ s.errors = <<>> /\ parse(s.tokens).p.errors = <<>>
WellFormed(statement) == ParsesClean(scan_tokens(Scanner(statement)))

\* The statements and the reports of parse(scan(code)) of the lines.
StmtsOf(lines) == parse(scan_tokens(Scanner(Code(lines))).tokens).stmts
ErrorsOf(lines) == parse(scan_tokens(Scanner(Code(lines))).tokens).p.errors

IsSuffix(a, b) == Len(a) <= Len(b) /\ SubSeq(b, Len(b) - Len(a) + 1, Len(b)) = a

Erroneous(lines) == {i \in 1..Len(lines) : ~WellFormed(lines[i])}

\* C28: when the parser is done with a source whose statements after an
\* erroneous one are all well-formed, its statements end with the statements
\* those lines parse to on their own; and when the first statement of the
\* source is erroneous, each erroneous statement after it has added one report to
\* the reports of the first.
C28_SynchronizesWithoutCascades ==
    (front.at = "parsed" /\ front.pass = 1) =>
        /\ \A i \in 1..(Len(front.source) - 1) :
               (i \in Erroneous(front.source)
                    /\ \A j \in (i + 1)..Len(front.source) : j \notin Erroneous(front.source))
               => IsSuffix(StmtsOf(SubSeq(front.source, i + 1, Len(front.source))), front.stmts)
        /\ (Len(front.source) > 1 /\ 1 \in Erroneous(front.source))
               => Len(front.parser.errors)
                      = Len(ErrorsOf(<<front.source[1]>>)) + Cardinality(Erroneous(front.source)) - 1

\* C26: the parser runs only on the tokens of a scan without a report, and
\* the interpreter is given only the tree of a scan and a parse without a
\* report, raised or not.
C26_PhasesGatedByErrorFlag ==
    /\ front.at \in {"parse", "parsed", "evaluate"} => front.scanner.errors = <<>>
    /\ front.at = "evaluate" => front.parser.errors = <<>>

\* CH.eval has returned "" for a source whose only report is the 'Expect
\* expression.' that atom() does not raise: the parser had returned a tree
\* with the statement in it.
C26_Witness ==
    /\ front.at = "returned"
    /\ front.pass = 1
    /\ ~had_error
    /\ front.parser.errors = <<"Expect expression.">>
    /\ front.ast.k = "Block"
    /\ \E i \in 1..Len(front.ast.body) :
           front.ast.body[i] = ExprStmt(Assign(<<"f", "o", "o">>, NoneNode))

(***************************************************************************)
(* Reactions: objs/ch_chemistry.py.  A formula is its terms and its number; *)
(* a term is an Element (symbol, number) or a formula in parentheses.       *)
(* Numbers are Decimals.                                                    *)
(***************************************************************************)

\* The largest coefficient a balanced reaction of ReactionSpec carries.
MaxCoef == 9

CHElement(symbol, count_) == [k |-> "Element", symbol |-> symbol, number |-> count_]
CHFormula(terms, count_) == [k |-> "CHFormula", terms |-> terms, number |-> count_]

\* The keys of CHFormula.count_dict: the symbols of the elements of the terms
\* and of the terms of the formulas in parentheses.
RECURSIVE CountKeys(_)
CountKeys(terms) ==
    IF terms = <<>> THEN {}
    ELSE LET term == Head(terms)
         IN  (IF term.k = "Element" THEN {term.symbol} ELSE CountKeys(term.terms))
                 \cup CountKeys(Tail(terms))

\* CHFormula.count_dict at one of its keys: the number of each Element of that
\* symbol, and the count in each formula in parentheses times its number.  The
\* number of the formula itself is not read.
RECURSIVE CountOf(_, _)
CountOf(terms, symbol) ==
    IF terms = <<>> THEN Dec(0, 0)
    ELSE LET term == Head(terms)
             here == IF term.k = "Element"
                     THEN IF term.symbol = symbol THEN term.number ELSE Dec(0, 0)
                     ELSE Decimal_mul(CountOf(term.terms, symbol), term.number)
         IN  Decimal_add(here, CountOf(Tail(terms), symbol))

\* CHFormula.count: count_dict.get(item, 0).
count(self, item) == CountOf(self.terms, item)

\* sympy's Integer of a Decimal is int() of it: the fraction is dropped.
Integer(d) ==
    IF d.exp >= 0 THEN d.coef * Pow10(d.exp)
    ELSE IF d.coef < 0 THEN -((-d.coef) \div Pow10(-d.exp))
    ELSE d.coef \div Pow10(-d.exp)

Reaction(reactants, products) == [reactants |-> reactants, products |-> products]

Formulae(reaction) == reaction.reactants \o reaction.products

\* elements of Reaction.balanced.
ReactionElements(reaction) ==
    UNION {CountKeys(Formulae(reaction)[i].terms) : i \in DOMAIN Formulae(reaction)}

\* The row of an element in the matrix of Reaction.balanced, without the zero
\* of the augmented column: Integer(count) of the reactants, Integer(-count)
\* of the products.
MatrixRow(reaction, element) ==
    [i \in DOMAIN Formulae(reaction) |->
        IF i <= Len(reaction.reactants)
        THEN Integer(count(Formulae(reaction)[i], element))
        ELSE Integer(Decimal_sub(Dec(0, 0), count(Formulae(reaction)[i], element)))]

RECURSIVE Dot(_, _, _)
Dot(row, v, i) == IF i = 0 THEN 0 ELSE row[i] * v[i] + Dot(row, v, i - 1)

\* The rows of the matrix of Reaction.balanced, one for each element.
Matrix(reaction) == {MatrixRow(reaction, element) : element \in ReactionElements(reaction)}

\* The solutions of the linear system with coefficients of at most MaxCoef.
Solutions(rows, n) ==
    {v \in [1..n -> -MaxCoef..MaxCoef] : \A row \in rows : Dot(row, v, n) = 0}

Proportional(v, w) == \A i, j \in DOMAIN v : v[i] * w[j] = v[j] * w[i]

RECURSIVE Gcd(_, _)
Gcd(a, b) == IF b = 0 THEN Abs(a) ELSE Gcd(b, a % Abs(b))

RECURSIVE GcdOf(_, _)
GcdOf(v, i) == IF i = 0 THEN 0 ELSE Gcd(v[i], GcdOf(v, i - 1))

\* simplified_result of Reaction.balanced from the solutions of the system.
\* solve_linear_system gives each variable it can as a multiple of the
\* variables it leaves free, and the least common multiple of the
\* denominators replaces the last variable: with no solution but zero, the
\* zeros; with one free variable, the last one, the solution in lowest terms
\* whose last number is positive; otherwise a variable stays in the result and
\* Decimal(str(number)) raises InvalidOperation.
Simplified(sols, n) ==
    LET nonzero == {v \in sols : \E i \in 1..n : v[i] # 0}
    IN  IF nonzero = {} THEN Returns([i \in 1..n |-> 0])
        ELSE IF \A v, w \in nonzero : Proportional(v, w)
        THEN IF \E v \in nonzero : v[n] # 0
             THEN Returns(CHOOSE v \in nonzero : v[n] > 0 /\ GcdOf(v, n) = 1)
             ELSE Raises("InvalidOperation")
        ELSE Raises("InvalidOperation")

\* The Reaction that balanced returns: the terms of each formula with its
\* number from simplified_result.
Balanced(reaction, simplified) ==
    IF simplified.raised THEN simplified
    ELSE LET n == Len(reaction.reactants)
         IN  Returns(Reaction(
                 [i \in DOMAIN reaction.reactants |->
                     CHFormula(reaction.reactants[i].terms, Dec(simplified.val[i], 0))],
                 [i \in DOMAIN reaction.products |->
                     CHFormula(reaction.products[i].terms, Dec(simplified.val[n + i], 0))]))

\* Reaction.balanced.
balanced(reaction) ==
    Balanced(reaction, Simplified(Solutions(Matrix(reaction), Len(Formulae(reaction))),
                                  Len(Formulae(reaction))))

One == Dec(1, 0)

\* H2, O2, O3, H2O, H2O2, H(OH), and H1.5O, a number with a fraction as the
\* scanner's number() reads it after a symbol.
ReactionFormulas ==
    {CHFormula(<<CHElement("H", Dec(2, 0))>>, One),
     CHFormula(<<CHElement("O", Dec(2, 0))>>, One),
     CHFormula(<<CHElement("O", Dec(3, 0))>>, One),
     CHFormula(<<CHElement("H", Dec(2, 0)), CHElement("O", One)>>, One),
     CHFormula(<<CHElement("H", Dec(2, 0)), CHElement("O", Dec(2, 0))>>, One),
     CHFormula(<<CHElement("H", One),
                 CHFormula(<<CHElement("O", One), CHElement("H", One)>>, Dec(2, 0))>>, One),
     CHFormula(<<CHElement("H", Dec(15, -1)), CHElement("O", One)>>, One)}

\* One or two reactants and one or two products, no formula twice, three
\* formulas at most.
Reactions ==
    {Reaction(r, p) : r \in UNION {[1..k -> ReactionFormulas] : k \in 1..2},
                      p \in UNION {[1..k -> ReactionFormulas] : k \in 1..2}}

Distinct(s) == \A i, j \in DOMAIN s : i # j => s[i] # s[j]

ReactionInit ==
    /\ AtRest
    /\ front = NoFront
    /\ \E reaction \in Reactions :
           /\ Len(Formulae(reaction)) <= 3
           /\ Distinct(Formulae(reaction))
           /\ calc = [reaction |-> reaction, at |-> "reaction"]

Reaction_balanced_to(outcome) ==
    /\ calc.at = "reaction"
    /\ calc' = [reaction |-> calc.reaction, at |-> "balanced", outcome |-> outcome]
    /\ UNCHANGED <<prog, ctrl, kont, heap, works, env, out, steps, had_error, driver>>

\* reaction.balanced returns a Reaction.
Reaction_balanced ==
    \E outcome \in {balanced(calc.reaction)} :
        ~outcome.raised /\ Reaction_balanced_to(outcome)

\* reaction.balanced raises: a variable is left in the result.
Reaction_balanced_raises ==
    \E outcome \in {balanced(calc.reaction)} :
        outcome.raised /\ Reaction_balanced_to(outcome)

ReactionNext ==
    \/ Reaction_balanced
    \/ Reaction_balanced_raises

ReactionSpec == ReactionInit /\ [][ReactionNext]_vars

\* The sum over formulas of number x count_dict[element].
RECURSIVE Atoms(_, _, _)
Atoms(formulas, element, i) ==
    IF i = 0 THEN Dec(0, 0)
    ELSE Decimal_add(Decimal_mul(formulas[i].number, count(formulas[i], element)),
                     Atoms(formulas, element, i - 1))

Conserved(reaction, element) ==
    Decimal_sub(Atoms(reaction.reactants, element, Len(reaction.reactants)),
                Atoms(reaction.products, element, Len(reaction.products))).coef = 0

\* C21: whenever balancing returns a Reaction, for every element of it the
\* sum over the reactants of coefficient x count_dict[element] equals the sum
\* over the products.
C21_BalancingConservesElements ==
    (calc.at = "balanced" /\ ~calc.outcome.raised) =>
        \A element \in ReactionElements(calc.reaction) :
            Conserved(calc.outcome.val, element)

(***************************************************************************)
(* Conversions between gram and mole: CHQuantity.to with the context of    *)
(* the formula.  The quotient of a magnitude by a molecular mass has more   *)
(* digits than an integer of the model holds, so the Decimals of this part  *)
(* are sequences of digits, the first one not zero, with an exponent.       *)
(***************************************************************************)

\* The precision of the decimal context, which the package leaves at the
\* default; its rounding is ROUND_HALF_UP.
prec == 28

gram == 2

RECURSIVE DigitsOf(_)
DigitsOf(n) == IF n < 10 THEN <<n>> ELSE Append(DigitsOf(n \div 10), n % 10)

RECURSIVE NumberOf(_)
NumberOf(digits) ==
    IF digits = <<>> THEN 0
    ELSE 10 * NumberOf(SubSeq(digits, 1, Len(digits) - 1)) + digits[Len(digits)]

Digits(digits, exponent) == [digits |-> digits, exp |-> exponent]

\* The Decimal of the model's integers as digits, and back.
Long(d) == Digits(DigitsOf(d.coef), d.exp)
Short(x) == Dec(NumberOf(x.digits), x.exp)

Zeros(k) == [i \in 1..k |-> 0]

RECURSIVE LStripZeros(_)
LStripZeros(digits) ==
    IF Len(digits) > 1 /\ Head(digits) = 0 THEN LStripZeros(Tail(digits)) ELSE digits

\* The trailing zeros removed while the exponent is below ideal.
RECURSIVE RStripZeros(_, _, _)
RStripZeros(digits, exponent, ideal) ==
    IF exponent < ideal /\ Len(digits) > 1 /\ digits[Len(digits)] = 0
    THEN RStripZeros(SubSeq(digits, 1, Len(digits) - 1), exponent + 1, ideal)
    ELSE Digits(digits, exponent)

\* digits + 1.
RECURSIVE Successor(_)
Successor(digits) ==
    IF digits = <<>> THEN <<1>>
    ELSE IF digits[Len(digits)] < 9
    THEN [digits EXCEPT ![Len(digits)] = @ + 1]
    ELSE Append(Successor(SubSeq(digits, 1, Len(digits) - 1)), 0)

\* The digits r kept of a value after dropping some: a
\* carry into one more digit drops the last one.
Carried(r, exponent, places) ==
    IF Len(r) > places THEN Digits(SubSeq(r, 1, places), exponent + 1)
    ELSE Digits(r, exponent)

\* Decimal._fix and Decimal._round under ROUND_HALF_UP: a value of more than
\* places digits keeps the first places of them, one more if the first digit
\* dropped is 5 or above.
Decimal_round(x, places) ==
    IF Len(x.digits) <= places THEN x
    ELSE Carried(IF x.digits[places + 1] >= 5
                 THEN Successor(SubSeq(x.digits, 1, places))
                 ELSE SubSeq(x.digits, 1, places),
                 x.exp + Len(x.digits) - places, places)

\* Long division of the digits num by d, from digit i on.
RECURSIVE LongDivision(_, _, _, _, _)
LongDivision(num, d, i, rem, quot) ==
    IF i > Len(num) THEN [quot |-> LStripZeros(quot), rem |-> rem]
    ELSE LongDivision(num, d, i + 1, (10 * rem + num[i]) % d,
                      Append(quot, (10 * rem + num[i]) \div d))

\* The coefficient of a quotient: with a remainder, a last digit 0 or 5 is
\* raised by one so that the rounding sees the remainder; without one, the
\* zeros down to the ideal exponent are removed.
Quotient(qr, exponent, ideal) ==
    IF qr.rem # 0
    THEN Digits(IF qr.quot[Len(qr.quot)] % 5 = 0
                THEN [qr.quot EXCEPT ![Len(qr.quot)] = @ + 1] ELSE qr.quot, exponent)
    ELSE RStripZeros(qr.quot, exponent, ideal)

DividedAt(x, y, shift) ==
    Decimal_round(Quotient(LongDivision(x.digits \o Zeros(shift), NumberOf(y.digits), 1, 0, <<>>),
                           x.exp - y.exp - shift, x.exp - y.exp), prec)

\* Decimal / Decimal of positive values, the divisor an integer of the model:
\* the dividend is given prec + 1 digits more than the divisor needs.
Decimal__truediv__(x, y) == DividedAt(x, y, Len(y.digits) - Len(x.digits) + prec + 1)

\* The digits of digits(1..i) * d + carry, before acc.
RECURSIVE Times(_, _, _, _, _)
Times(digits, d, i, carry, acc) ==
    IF i = 0 THEN IF carry = 0 THEN acc ELSE DigitsOf(carry) \o acc
    ELSE Times(digits, d, i - 1, (digits[i] * d + carry) \div 10,
               <<(digits[i] * d + carry) % 10>> \o acc)

\* Decimal * Decimal of positive values, the second an integer of the model.
Decimal__mul__(x, y) ==
    Decimal_round(Digits(Times(x.digits, NumberOf(y.digits), Len(x.digits), 0, <<>>),
                         x.exp + y.exp), prec)

\* Decimal == Decimal: the values, whatever the exponents.
Decimal__eq__(x, y) ==
    RStripZeros(x.digits, x.exp, x.exp + Len(x.digits))
        = RStripZeros(y.digits, y.exp, y.exp + Len(y.digits))

\* SignificantDigits(value, sig_fig) of such a Decimal.
LongSD(x, sig_fig) == [digits |-> x.digits, exp |-> x.exp, sig_fig |-> sig_fig]

\* SignificantDigits.__str__: the format rounds a value of more than sig_fig
\* digits to sig_fig digits.
LongSD__str__(x) ==
    IF x.sig_fig = 0 THEN SignificantDigits__str__(SD(Dec(0, 0), 0))
    ELSE SignificantDigits__str__(SD(Short(Decimal_round(x, x.sig_fig)), x.sig_fig))

\* CHNumber(x) of a SignificantDigits x without a count: the count is parsed
\* from str(x).
LongCHNumber(x) == LongSD(x, SigFigOfText(LongSD__str__(x)))

\* CHQuantity(formula, magnitude, unit).
LongCHQuantity(formulae, magnitude, unit) ==
    [formula |-> formulae, magnitude |-> LongCHNumber(magnitude), unit |-> unit]

\* periodic_table.get(symbol, "AtomicMass"), with the standard atomic weights
\* of hydrogen and oxygen in the table.
AtomicMass(symbol) == IF symbol = "H" THEN Dec(1008, -3) ELSE Dec(15999, -3)

\* The sum of AtomicMass * number over the items of count_dict.
RECURSIVE MassOf(_, _)
MassOf(self, keys) ==
    IF keys = {} THEN Dec(0, 0)
    ELSE LET element == CHOOSE e \in keys : TRUE
         IN  Decimal_add(Decimal_mul(AtomicMass(element), count(self, element)),
                         MassOf(self, keys \ {element}))

\* The magnitude of CHFormula.molecular_mass.
molecular_mass(self) == Long(MassOf(self, CountKeys(self.terms)))

\* FormulaUnit.context and CHQuantity.ctx: a formula unit of one formula has
\* the context of that formula; None and the others have none.
HasContext(formulae) == formulae # NoneV /\ Len(formulae.formulas) = 1

\* The transformations of CHFormula.context: from mass to substance the
\* magnitude is divided by the molecular mass, from substance to mass it is
\* multiplied by it; the units that result are the target, the factor is 1.
Transformed(magnitude, mass, target) ==
    IF target = mol THEN Decimal__truediv__(magnitude, mass)
    ELSE Decimal__mul__(magnitude, mass)

\* CHQuantity.to with a Unit, gram or mole, as its target.  Between two
\* different units the registry converts with the context of the formula,
\* and raises DimensionalityError without one, which to reports through the
\* handler; the magnitude that results carries the count of self.
CHQuantity_to(self, target) ==
    IF self.unit = target
    THEN Returns(LongCHQuantity(self.formula, self.magnitude, self.unit))
    ELSE IF ~HasContext(self.formula) THEN Raises("CHError")
    ELSE Returns(LongCHQuantity(
             self.formula,
             LongSD(Transformed(self.magnitude, molecular_mass(self.formula.formulas[1]),
                                target),
                    self.magnitude.sig_fig),
             target))

H_2 == CHFormula(<<CHElement("H", Dec(2, 0))>>, One)
O_2 == CHFormula(<<CHElement("O", Dec(2, 0))>>, One)
H_2O == CHFormula(<<CHElement("H", Dec(2, 0)), CHElement("O", One)>>, One)
H_2O_2 == CHFormula(<<CHElement("H", Dec(2, 0)), CHElement("O", Dec(2, 0))>>, One)

\* 1, 2, 5, 7, 10, 12, 25, 100, 125, 0.1, 0.2, 0.5, 0.7, 1.0, 1.2, 2.5, 10.0,
\* 12.5, 20.16, 2.016, 36.030.
Masses ==
    {Dec(1, 0), Dec(2, 0), Dec(5, 0), Dec(7, 0), Dec(10, 0), Dec(12, 0), Dec(25, 0),
     Dec(100, 0), Dec(125, 0), Dec(1, -1), Dec(2, -1), Dec(5, -1), Dec(7, -1),
     Dec(10, -1), Dec(12, -1), Dec(25, -1), Dec(100, -1), Dec(125, -1),
     Dec(2016, -2), Dec(2016, -3), Dec(36030, -3)}

\* Quantities in gram: of one formula, of none, and of two.
Grams ==
    {LongCHQuantity(f, LongSD(Long(d), _parse_significant_digits_decimal(d)), gram) :
         f \in {FormulaUnit(<<H_2>>), FormulaUnit(<<O_2>>), FormulaUnit(<<H_2O>>),
                FormulaUnit(<<H_2O_2>>), FormulaUnit(<<H_2, O_2>>), NoneV},
         d \in Masses}

ConversionInit ==
    /\ AtRest
    /\ front = NoFront
    /\ \E q \in Grams : calc = [q |-> q, trail |-> <<>>]

\* q.to(target) of the quantity q that the last conversion returned, or of the
\* first one.
Converted == IF calc.trail = <<>> THEN calc.q ELSE calc.trail[Len(calc.trail)].val

Convert(target, outcome) ==
    /\ calc' = [calc EXCEPT !.trail = Append(@, outcome)]
    /\ had_error' = (had_error \/ outcome.raised)
    /\ UNCHANGED <<prog, ctrl, kont, heap, works, env, out, steps, driver>>

\* The quantity in gram is converted to mole.
CHQuantity_to_mole ==
    /\ calc.trail = <<>>
    /\ Convert(mol, CHQuantity_to(Converted, mol))

\* The quantity in mole that the first conversion returned is converted to gram.
CHQuantity_to_gram ==
    /\ Len(calc.trail) = 1
    /\ ~calc.trail[1].raised
    /\ Convert(gram, CHQuantity_to(Converted, gram))

ConversionNext ==
    \/ CHQuantity_to_mole
    \/ CHQuantity_to_gram

ConversionSpec == ConversionInit /\ [][ConversionNext]_vars

\* The quantity has gone to mole and back to gram.
RoundTrip == Len(calc.trail) = 2 /\ ~calc.trail[2].raised

====
